---- MODULE Spec2Model ----
(***************************************************************************)
(* LockRelease: linear token-release schedules per (token, beneficiary).   *)
(* The contract's storage, its views and its external functions, modelled  *)
(* from the Solidity source.  A reverting call leaves every store          *)
(* untouched (EVM revert); unsigned arithmetic is checked (Solidity 0.8),  *)
(* so an overflow or underflow is a revert (Panic).                        *)
(* Checkpoints: per (token, account) and per token series of               *)
(* (fromBlock, votes) checkpoints, written by the mint, burn and transfer  *)
(* hooks and read by binary search.                                        *)
(***************************************************************************)
EXTENDS Integers, Sequences, FiniteSets, TLC

\* ------------------------------------------------------------------ bounds
\* The integer types of struct Schedule, scaled down: uint128 is 2 bits wide,
\* uint256 is 3 bits wide (uint128 narrower than uint256, as in the source).
MaxUint128 == 3
MaxUint256 == 7

\* Bounds of the specification Spec (every key, few numbers):
\* block.timestamp runs over 0..MaxTime
MaxTime == 2
\* the total a caller requests
MaxTotal == 2
\* the duration a caller passes
OneDuration == 2
\* the largest amount a caller asks to release
MaxAmount == 1

\* Bounds of the specification SpecNum (one key, every number):
\* block.timestamp runs over 0..NumMaxTime
NumMaxTime == 3
\* the largest total a caller requests, and the largest amount
NumMaxTotal == 4
\* the largest start a caller passes
NumMaxStart == 1
\* the most units a fee-on-transfer token withholds from one transfer
MaxFee == 1

\* The integer types of Checkpoints, scaled down: uint32 (fromBlock) is 4 bits
\* wide, uint48 (clock) 6 bits; uint224 (votes) is narrower than uint256.
MaxUint32 == 15
MaxUint48 == 63
MaxUint224 == 3

\* Bounds of the specification SpecLog (one token, the event log kept):
\* block.timestamp runs over 0..LogMaxTime
LogMaxTime == 3
\* the total a caller requests
LogMaxTotal == 3

\* Bounds of the specification SpecCkpt (the writes of Checkpoints):
\* block.number runs over 1..CkptMaxBlock
CkptMaxBlock == 2
\* the largest amount minted, burnt or transferred
CkptMaxAmount == 1

\* Bounds of the specification SpecLookup (the lookups of Checkpoints):
\* the checkpoints of a series are from blocks 1..MaxMarker
MaxMarker == 7
\* the votes of a checkpoint are 1 or MaxVotes
MaxVotes == 2
MaxDepth == 2
ReMaxTotal == 4
ReMaxAmount == 2
ReMaxTime == 2
CbMaxTotal == 1
CbMaxTime == 1

ZeroAddress == "0x0"
Tokens == {"token1", "token2"}
Users == {"ben1", "ben2"}
Owner == "owner"

\* the outcome of a token transfer that reverts
REVERTS == -1
\* the value a view call that reverts with an arithmetic Panic does not return
PANIC == -1

VARIABLES
  schedules,   \* _schedules[token][beneficiary]: Schedule
  now,         \* block.timestamp
  held,        \* token.balanceOf(address(this)), per token
  sent,        \* units the token has transferred out of the contract in
               \* releases of (token, beneficiary)
  started,     \* the number of ScheduleStarted events emitted so far for
               \* (token, beneficiary)
  emitted,     \* the events of the last transaction
  last,        \* the last transaction: the function called, the total or
               \* amount it was called with, and how it ended
  events,      \* the event log of LockRelease: the events of all transactions
               \* so far, in order (followed in SpecLog)
  _checkpoints,             \* Checkpoints._checkpoints[token][account]
  _totalSupplyCheckpoints,  \* Checkpoints._totalSupplyCheckpoints[token]
  blockNumber, \* block.number
  returned,    \* what the last call of a view of Checkpoints returned
  calls,       \* the calls of LockRelease in progress, the innermost last:
               \* each is inside its call of the token (safeTransferFrom or
               \* safeTransfer), from which the token called LockRelease again
  writes,      \* history of the calls of _writeCheckpoint that succeeded, per
               \* series: net, the deltas added less the deltas subtracted,
               \* and blocks, the block.numbers they ran in
  view         \* the state of the hooks of data/vests.ts (vestIds,
               \* vestClaimedAmounts, endBlock, loading), the promises they
               \* wait for and the events the provider has yet to deliver

\* the storage of Checkpoints, the chain state it reads and its history
ckptVars ==
  <<_checkpoints, _totalSupplyCheckpoints, blockNumber, returned, writes>>

vars == <<schedules, now, held, sent, started, emitted, last, events,
          _checkpoints, _totalSupplyCheckpoints, blockNumber, returned, calls,
          writes, view>>

\* A key that was never written reads as the zero Schedule.
NoSchedule == [total |-> 0, released |-> 0, start |-> 0, duration |-> 0]

getTotal(token, beneficiary) == schedules[token][beneficiary].total
getReleased(token, beneficiary) == schedules[token][beneficiary].released
getStart(token, beneficiary) == schedules[token][beneficiary].start
getDuration(token, beneficiary) == schedules[token][beneficiary].duration

\* getTotalMatured on a Schedule value at block.timestamp = t.
\* start + duration is a uint128 sum and total * (t - start) a uint256
\* product: either reverts when it does not fit.
maturedAt(schedule, t) ==
  IF t < schedule.start THEN 0
  ELSE IF schedule.start + schedule.duration > MaxUint128 THEN PANIC
  ELSE IF t >= schedule.start + schedule.duration THEN schedule.total
  ELSE IF schedule.total * (t - schedule.start) > MaxUint256 THEN PANIC
  ELSE (schedule.total * (t - schedule.start)) \div schedule.duration

getTotalMatured(token, beneficiary) ==
  maturedAt(schedules[token][beneficiary], now)

\* getTotalMatured - getReleased in checked arithmetic.
checkedSub(a, b) ==
  IF a = PANIC THEN PANIC
  ELSE IF a < b THEN PANIC
  ELSE a - b

\* getReleasable forgetting what was released
getReleasableNoSub(token, beneficiary) ==
  getTotalMatured(token, beneficiary)

getReleasable(token, beneficiary) ==
  checkedSub(getTotalMatured(token, beneficiary), getReleased(token, beneficiary))

\* ---------------------------------------------------------------- results
\* What a call leaves behind: err = "ok" and the new stores, or the reason of
\* the revert and the stores as they were.
Revert(reason) ==
  [err |-> reason, schedules |-> schedules, held |-> held, sent |-> sent,
   started |-> started, emitted |-> <<>>]

\* ScheduleStarted naming the beneficiary as the creator
ScheduleStartedByBeneficiary(token, beneficiary, creator) ==
  [name |-> "ScheduleStarted", token |-> token, beneficiary |-> beneficiary,
   creator |-> beneficiary]

ScheduleStarted(token, beneficiary, creator) ==
  [name |-> "ScheduleStarted", token |-> token, beneficiary |-> beneficiary,
   creator |-> creator]

TokensReleased(token, beneficiary, recipient, amount, releasor) ==
  [name |-> "TokensReleased", token |-> token, beneficiary |-> beneficiary,
   recipient |-> recipient, amount |-> amount, releasor |-> releasor]

\* createSchedule from the token transfer on: the units received are measured
\* as the growth of balanceOf(address(this)) and recorded as the total.
\* delivered: what safeTransferFrom does, REVERTS when the token reverts
\* (allowance or balance too small), or the number of units by which
\* balanceOf(address(this)) grows.
recordSchedule(sender, token, beneficiary, recorded, start, duration, delivered) ==
  [err |-> "ok",
   schedules |-> [schedules EXCEPT ![token][beneficiary] =
       [total |-> recorded, released |-> 0, start |-> start, duration |-> duration]],
   held |-> [held EXCEPT ![token] = @ + delivered],
   sent |-> sent,
   started |-> [started EXCEPT ![token][beneficiary] = @ + 1],
   emitted |-> <<ScheduleStarted(token, beneficiary, sender)>>]

\* createSchedule without the require on _schedules[token][beneficiary].total
createScheduleNoDuplicateCheck(sender, token, beneficiary, total, start, duration, delivered) ==
  IF duration = 0 THEN Revert("ZeroDuration")
  ELSE IF beneficiary = ZeroAddress THEN Revert("ZeroBeneficiary")
  ELSE IF token = ZeroAddress THEN Revert("ZeroToken")
  ELSE IF total = 0 THEN Revert("ZeroTotal")
  ELSE IF delivered = REVERTS THEN Revert("TransferFailed")
  ELSE IF delivered = 0 THEN Revert("ZeroAmount")
  ELSE recordSchedule(sender, token, beneficiary, delivered, start, duration, delivered)

\* createSchedule recording the requested total instead of the units received
createScheduleRecordsRequested(sender, token, beneficiary, total, start, duration, delivered) ==
  IF duration = 0 THEN Revert("ZeroDuration")
  ELSE IF beneficiary = ZeroAddress THEN Revert("ZeroBeneficiary")
  ELSE IF token = ZeroAddress THEN Revert("ZeroToken")
  ELSE IF total = 0 THEN Revert("ZeroTotal")
  ELSE IF schedules[token][beneficiary].total # 0 THEN Revert("DuplicateSchedule")
  ELSE IF delivered = REVERTS THEN Revert("TransferFailed")
  ELSE IF delivered = 0 THEN Revert("ZeroAmount")
  ELSE recordSchedule(sender, token, beneficiary, total, start, duration, delivered)

\* createSchedule without the require on the units received
createScheduleAcceptsNothing(sender, token, beneficiary, total, start, duration, delivered) ==
  IF duration = 0 THEN Revert("ZeroDuration")
  ELSE IF beneficiary = ZeroAddress THEN Revert("ZeroBeneficiary")
  ELSE IF token = ZeroAddress THEN Revert("ZeroToken")
  ELSE IF total = 0 THEN Revert("ZeroTotal")
  ELSE IF schedules[token][beneficiary].total # 0 THEN Revert("DuplicateSchedule")
  ELSE IF delivered = REVERTS THEN Revert("TransferFailed")
  ELSE recordSchedule(sender, token, beneficiary, delivered, start, duration, delivered)

\* createSchedule that requires total != 0 only after the token transfer
createScheduleChecksTotalLate(sender, token, beneficiary, total, start, duration, delivered) ==
  IF duration = 0 THEN Revert("ZeroDuration")
  ELSE IF beneficiary = ZeroAddress THEN Revert("ZeroBeneficiary")
  ELSE IF token = ZeroAddress THEN Revert("ZeroToken")
  ELSE IF schedules[token][beneficiary].total # 0 THEN Revert("DuplicateSchedule")
  ELSE IF delivered = REVERTS THEN Revert("TransferFailed")
  ELSE IF total = 0 THEN Revert("ZeroTotal")
  ELSE IF delivered = 0 THEN Revert("ZeroAmount")
  ELSE recordSchedule(sender, token, beneficiary, delivered, start, duration, delivered)

\* createSchedule that saves the schedule before the token transfer and
\* returns when the transfer fails
createScheduleKeepsRecordOnFailure(sender, token, beneficiary, total, start, duration, delivered) ==
  IF duration = 0 THEN Revert("ZeroDuration")
  ELSE IF beneficiary = ZeroAddress THEN Revert("ZeroBeneficiary")
  ELSE IF token = ZeroAddress THEN Revert("ZeroToken")
  ELSE IF total = 0 THEN Revert("ZeroTotal")
  ELSE IF schedules[token][beneficiary].total # 0 THEN Revert("DuplicateSchedule")
  ELSE IF delivered = REVERTS
    THEN [Revert("TransferFailed") EXCEPT
            !.schedules = [schedules EXCEPT ![token][beneficiary] =
               [total |-> total, released |-> 0, start |-> start, duration |-> duration]]]
  ELSE IF delivered = 0 THEN Revert("ZeroAmount")
  ELSE recordSchedule(sender, token, beneficiary, delivered, start, duration, delivered)

\* createSchedule(token, beneficiary, total, start, duration) called by sender.
createSchedule(sender, token, beneficiary, total, start, duration, delivered) ==
  IF duration = 0 THEN Revert("ZeroDuration")
  ELSE IF beneficiary = ZeroAddress THEN Revert("ZeroBeneficiary")
  ELSE IF token = ZeroAddress THEN Revert("ZeroToken")
  ELSE IF total = 0 THEN Revert("ZeroTotal")
  ELSE IF schedules[token][beneficiary].total # 0 THEN Revert("DuplicateSchedule")
  ELSE IF delivered = REVERTS THEN Revert("TransferFailed")
  ELSE LET before == held[token]
           afterr == held[token] + delivered
           result == afterr - before
       IN IF result = 0 THEN Revert("ZeroAmount")
          ELSE recordSchedule(sender, token, beneficiary, result, start, duration,
                              delivered)

\* _release paying out of the total: total shrinks by the amount released
releaseEffectShrinksTotal(sender, token, key, beneficiary, recipient, amount) ==
  [err |-> "ok",
   schedules |-> [schedules EXCEPT ![token][key].released = @ + amount,
                                   ![token][key].total = @ - amount],
   held |-> [held EXCEPT ![token] = @ - amount],
   sent |-> [sent EXCEPT ![token][beneficiary] = @ + amount],
   started |-> started,
   emitted |-> <<TokensReleased(token, beneficiary, recipient, amount, sender)>>]

\* _release once its validations passed and the token's transfer went through:
\* released of the key grows by amount, the token moves amount units from the
\* contract to recipient, TokensReleased is emitted.  key: the beneficiary
\* whose schedule is written.
releaseEffect(sender, token, key, beneficiary, recipient, amount) ==
  [err |-> "ok",
   schedules |-> [schedules EXCEPT ![token][key].released = @ + amount],
   held |-> [held EXCEPT ![token] = @ - amount],
   sent |-> [sent EXCEPT ![token][beneficiary] = @ + amount],
   started |-> started,
   emitted |-> <<TokensReleased(token, beneficiary, recipient, amount, sender)>>]

\* _release writing released of the recipient's schedule
release_KeyedByRecipient(sender, token, beneficiary, recipient, amount, transferOk) ==
  LET unreleased == getReleasable(token, beneficiary) IN
  IF unreleased = PANIC THEN Revert("Panic")
  ELSE IF ~(unreleased > 0) THEN Revert("NoTokensDue")
  ELSE IF ~(amount > 0) THEN Revert("ZeroClaim")
  ELSE IF ~(amount <= unreleased) THEN Revert("OverClaim")
  ELSE IF ~transferOk THEN Revert("TransferFailed")
  ELSE releaseEffect(sender, token, recipient, beneficiary, recipient, amount)

\* _release that catches a failed transfer and returns, keeping its write
release_KeepsWriteOnFailure(sender, token, beneficiary, recipient, amount, transferOk) ==
  LET unreleased == getReleasable(token, beneficiary) IN
  IF unreleased = PANIC THEN Revert("Panic")
  ELSE IF ~(unreleased > 0) THEN Revert("NoTokensDue")
  ELSE IF ~(amount > 0) THEN Revert("ZeroClaim")
  ELSE IF ~(amount <= unreleased) THEN Revert("OverClaim")
  ELSE IF ~transferOk
    THEN [Revert("TransferFailed") EXCEPT
            !.schedules = [schedules EXCEPT ![token][beneficiary].released = @ + amount]]
  ELSE releaseEffect(sender, token, beneficiary, beneficiary, recipient, amount)

\* _release comparing the amount with the schedule's total
release_ChecksTotal(sender, token, beneficiary, recipient, amount, transferOk) ==
  LET unreleased == getReleasable(token, beneficiary) IN
  IF unreleased = PANIC THEN Revert("Panic")
  ELSE IF ~(unreleased > 0) THEN Revert("NoTokensDue")
  ELSE IF ~(amount > 0) THEN Revert("ZeroClaim")
  ELSE IF ~(amount <= getTotal(token, beneficiary)) THEN Revert("OverClaim")
  ELSE IF ~transferOk THEN Revert("TransferFailed")
  ELSE releaseEffect(sender, token, beneficiary, beneficiary, recipient, amount)

\* _release with the require on amount <= unreleased first
release_OverClaimFirst(sender, token, beneficiary, recipient, amount, transferOk) ==
  LET unreleased == getReleasable(token, beneficiary) IN
  IF unreleased = PANIC THEN Revert("Panic")
  ELSE IF ~(amount <= unreleased) THEN Revert("OverClaim")
  ELSE IF ~(unreleased > 0) THEN Revert("NoTokensDue")
  ELSE IF ~(amount > 0) THEN Revert("ZeroClaim")
  ELSE IF ~transferOk THEN Revert("TransferFailed")
  ELSE releaseEffect(sender, token, beneficiary, beneficiary, recipient, amount)

\* _release with the first two requires swapped
release_ZeroClaimFirst(sender, token, beneficiary, recipient, amount, transferOk) ==
  LET unreleased == getReleasable(token, beneficiary) IN
  IF unreleased = PANIC THEN Revert("Panic")
  ELSE IF ~(amount > 0) THEN Revert("ZeroClaim")
  ELSE IF ~(unreleased > 0) THEN Revert("NoTokensDue")
  ELSE IF ~(amount <= unreleased) THEN Revert("OverClaim")
  ELSE IF ~transferOk THEN Revert("TransferFailed")
  ELSE releaseEffect(sender, token, beneficiary, beneficiary, recipient, amount)

\* _release(token, beneficiary, recipient, amount) with msg.sender = sender.
\* transferOk: whether the token's transfer to recipient goes through.
_release(sender, token, beneficiary, recipient, amount, transferOk) ==
  LET unreleased == getReleasable(token, beneficiary) IN
  IF unreleased = PANIC THEN Revert("Panic")
  ELSE IF ~(unreleased > 0) THEN Revert("NoTokensDue")
  ELSE IF ~(amount > 0) THEN Revert("ZeroClaim")
  ELSE IF ~(amount <= unreleased) THEN Revert("OverClaim")
  ELSE IF ~transferOk THEN Revert("TransferFailed")
  ELSE releaseEffect(sender, token, beneficiary, beneficiary, recipient, amount)

\* release(token, beneficiary, amount)
release(sender, token, beneficiary, amount, transferOk) ==
  _release(sender, token, beneficiary, beneficiary, amount, transferOk)

\* release(token, beneficiary) claiming one unit
releaseAllOneUnit(sender, token, beneficiary, transferOk) ==
  release(sender, token, beneficiary, 1, transferOk)

\* release(token, beneficiary): the argument getReleasable(...) is evaluated
\* first and reverts the call when it reverts.
releaseAll(sender, token, beneficiary, transferOk) ==
  IF getReleasable(token, beneficiary) = PANIC THEN Revert("Panic")
  ELSE release(sender, token, beneficiary, getReleasable(token, beneficiary), transferOk)

\* releaseTo releasing the schedule of its address argument to the caller
releaseToFromAnyone(sender, token, recipient, amount, transferOk) ==
  _release(sender, token, recipient, sender, amount, transferOk)

\* releaseTo(token, recipient, amount)
releaseTo(sender, token, recipient, amount, transferOk) ==
  _release(sender, token, sender, recipient, amount, transferOk)

\* releaseTo(token, recipient)
releaseToAll(sender, token, recipient, transferOk) ==
  IF getReleasable(token, sender) = PANIC THEN Revert("Panic")
  ELSE releaseTo(sender, token, recipient, getReleasable(token, sender), transferOk)

\* ------------------------------------------------------------ Checkpoints
Checkpoint(fromBlock, votes) == [fromBlock |-> fromBlock, votes |-> votes]

\* SafeCast: the value when it fits the type, a revert when it does not.
toUint(value, max) == IF value = PANIC \/ value > max THEN PANIC ELSE value

\* clock() = SafeCast.toUint48(block.number)
clock == toUint(blockNumber, MaxUint48)

\* _unsafeAccess(ckpts, pos): the storage slot of element pos, read without a
\* bounds check; a slot past the end of the array was never written (no
\* series ever shrinks) and reads as the zero Checkpoint.
_unsafeAccess(ckpts, pos) ==
  IF pos < Len(ckpts) THEN ckpts[pos + 1] ELSE Checkpoint(0, 0)

\* Math.sqrt: the square root rounded down
sqrt(a) == CHOOSE r \in 0..a : r * r <= a /\ (r + 1) * (r + 1) > a

\* Math.average: the mean rounded down
average(a, b) == (a + b) \div 2

\* the while loop of _checkpointsLookup from (low, high) on; reads: the
\* positions _unsafeAccess was called with so far
RECURSIVE lookupLoop(_, _, _, _, _)
lookupLoop(ckpts, timepoint, low, high, reads) ==
  IF low < high
  THEN LET mid == average(low, high) IN
         IF _unsafeAccess(ckpts, mid).fromBlock > timepoint
         THEN lookupLoop(ckpts, timepoint, low, mid, reads \cup {mid})
         ELSE lookupLoop(ckpts, timepoint, mid + 1, high, reads \cup {mid})
  ELSE [high |-> high, reads |-> reads]

\* the narrowing taking the checkpoint of timepoint itself as later
lookupPartitionStrict(ckpts, timepoint) ==
  LET length == Len(ckpts) IN
    IF length > 5
    THEN LET mid == length - sqrt(length) IN
           IF _unsafeAccess(ckpts, mid).fromBlock >= timepoint
           THEN [low |-> 0, high |-> mid, reads |-> {mid}]
           ELSE [low |-> mid + 1, high |-> length, reads |-> {mid}]
    ELSE [low |-> 0, high |-> length, reads |-> {}]

\* the narrowing of the search range on a series longer than 5
lookupPartition(ckpts, timepoint) ==
  LET length == Len(ckpts) IN
    IF length > 5
    THEN LET mid == length - sqrt(length) IN
           IF _unsafeAccess(ckpts, mid).fromBlock > timepoint
           THEN [low |-> 0, high |-> mid, reads |-> {mid}]
           ELSE [low |-> mid + 1, high |-> length, reads |-> {mid}]
    ELSE [low |-> 0, high |-> length, reads |-> {}]

\* _checkpointsLookup returning the checkpoint at high instead of high - 1
lookupRunAtHigh(ckpts, timepoint) ==
  LET from == lookupPartition(ckpts, timepoint)
      found == lookupLoop(ckpts, timepoint, from.low, from.high, from.reads)
  IN IF found.high = 0
     THEN [value |-> 0, reads |-> found.reads]
     ELSE [value |-> _unsafeAccess(ckpts, found.high).votes,
           reads |-> found.reads \cup {found.high}]

\* One run of _checkpointsLookup: the value it returns and the positions it
\* read.
lookupRun(ckpts, timepoint) ==
  LET from == lookupPartition(ckpts, timepoint)
      found == lookupLoop(ckpts, timepoint, from.low, from.high, from.reads)
  IN IF found.high = 0
     THEN [value |-> 0, reads |-> found.reads]
     ELSE [value |-> _unsafeAccess(ckpts, found.high - 1).votes,
           reads |-> found.reads \cup {found.high - 1}]

_checkpointsLookup(ckpts, timepoint) == lookupRun(ckpts, timepoint).value

\* What a view call gives: err = "ok" and the value, or the reason of the revert.
Returns(value) == [err |-> "ok", value |-> value]
ViewReverts(reason) == [err |-> reason, value |-> 0]

\* numCheckpoints(token, account)
numCheckpoints(token, account) ==
  IF toUint(Len(_checkpoints[token][account]), MaxUint32) = PANIC
  THEN ViewReverts("SafeCast")
  ELSE Returns(Len(_checkpoints[token][account]))

\* getVotes reading the first checkpoint
getVotesFirst(token, account) ==
  LET pos == Len(_checkpoints[token][account]) IN
    Returns(IF pos = 0 THEN 0 ELSE _checkpoints[token][account][1].votes)

\* getVotes(token, account)
getVotes(token, account) ==
  LET pos == Len(_checkpoints[token][account]) IN
    Returns(IF pos = 0 THEN 0 ELSE _checkpoints[token][account][pos].votes)

\* getPastVotes(token, account, timepoint)
getPastVotes(token, account, timepoint) ==
  IF clock = PANIC THEN ViewReverts("SafeCast")
  ELSE IF ~(timepoint < clock) THEN ViewReverts("FutureLookup")
  ELSE Returns(_checkpointsLookup(_checkpoints[token][account], timepoint))

\* getPastTotalSupply without its require
getPastTotalSupplyNoRequire(token, timepoint) ==
  IF clock = PANIC THEN ViewReverts("SafeCast")
  ELSE Returns(_checkpointsLookup(_totalSupplyCheckpoints[token], timepoint))

\* getPastTotalSupply requiring timepoint <= clock()
getPastTotalSupplyInclusive(token, timepoint) ==
  IF clock = PANIC THEN ViewReverts("SafeCast")
  ELSE IF ~(timepoint <= clock) THEN ViewReverts("FutureLookup")
  ELSE Returns(_checkpointsLookup(_totalSupplyCheckpoints[token], timepoint))

\* getPastTotalSupply(token, timepoint)
getPastTotalSupply(token, timepoint) ==
  IF clock = PANIC THEN ViewReverts("SafeCast")
  ELSE IF ~(timepoint < clock) THEN ViewReverts("FutureLookup")
  ELSE Returns(_checkpointsLookup(_totalSupplyCheckpoints[token], timepoint))

\* _add and _subtract: checked uint256 arithmetic (their bodies are not in
\* the caller's unchecked block)
_add(a, b) == IF a + b > MaxUint256 THEN PANIC ELSE a + b
\* _subtract in unchecked arithmetic
_subtractUnchecked(a, b) == (a - b) % (MaxUint256 + 1)
_subtract(a, b) == IF a < b THEN PANIC ELSE a - b

\* What _writeCheckpoint leaves of a series: err = "ok" and the new series, or
\* the reason of the revert and the series as it was.
Written(ckpts) == [err |-> "ok", ckpts |-> ckpts]
WriteReverts(reason, ckpts) == [err |-> reason, ckpts |-> ckpts]

\* the call op(a, b) of the function _writeCheckpoint was passed
call(op, a, b) == IF op = "_add" THEN _add(a, b) ELSE _subtract(a, b)

\* _writeCheckpoint pushing a checkpoint at every write
_writeCheckpointAlwaysPush(ckpts, op, delta) ==
  LET pos == Len(ckpts)
      oldCkpt == IF pos = 0 THEN Checkpoint(0, 0) ELSE _unsafeAccess(ckpts, pos - 1)
      newWeight == call(op, oldCkpt.votes, delta)
  IN IF newWeight = PANIC THEN WriteReverts("Panic", ckpts)
     ELSE IF clock = PANIC THEN WriteReverts("SafeCast", ckpts)
     ELSE IF toUint(clock, MaxUint32) = PANIC \/ toUint(newWeight, MaxUint224) = PANIC
       THEN WriteReverts("SafeCast", ckpts)
     ELSE Written(Append(ckpts, Checkpoint(clock, newWeight)))

\* _writeCheckpoint overwriting the last checkpoint whatever its block
_writeCheckpointInPlace(ckpts, op, delta) ==
  LET pos == Len(ckpts)
      oldCkpt == IF pos = 0 THEN Checkpoint(0, 0) ELSE _unsafeAccess(ckpts, pos - 1)
      newWeight == call(op, oldCkpt.votes, delta)
  IN IF newWeight = PANIC THEN WriteReverts("Panic", ckpts)
     ELSE IF clock = PANIC THEN WriteReverts("SafeCast", ckpts)
     ELSE IF toUint(clock, MaxUint32) = PANIC \/ toUint(newWeight, MaxUint224) = PANIC
       THEN WriteReverts("SafeCast", ckpts)
     ELSE IF pos > 0
       THEN Written([ckpts EXCEPT ![pos] = Checkpoint(clock, newWeight)])
     ELSE Written(Append(ckpts, Checkpoint(clock, newWeight)))

\* _writeCheckpoint writing into a last checkpoint of the block before too
_writeCheckpointCoalescesPrevious(ckpts, op, delta) ==
  LET pos == Len(ckpts)
      oldCkpt == IF pos = 0 THEN Checkpoint(0, 0) ELSE _unsafeAccess(ckpts, pos - 1)
      newWeight == call(op, oldCkpt.votes, delta)
  IN IF newWeight = PANIC THEN WriteReverts("Panic", ckpts)
     ELSE IF clock = PANIC THEN WriteReverts("SafeCast", ckpts)
     ELSE IF toUint(clock, MaxUint32) = PANIC \/ toUint(newWeight, MaxUint224) = PANIC
       THEN WriteReverts("SafeCast", ckpts)
     ELSE IF pos > 0 /\ oldCkpt.fromBlock >= clock - 1
       THEN Written([ckpts EXCEPT ![pos].votes = newWeight])
     ELSE Written(Append(ckpts, Checkpoint(clock, newWeight)))

\* _writeCheckpoint keeping only the checkpoint of the current block
_writeCheckpointKeepsLatest(ckpts, op, delta) ==
  LET pos == Len(ckpts)
      oldCkpt == IF pos = 0 THEN Checkpoint(0, 0) ELSE _unsafeAccess(ckpts, pos - 1)
      newWeight == call(op, oldCkpt.votes, delta)
  IN IF newWeight = PANIC THEN WriteReverts("Panic", ckpts)
     ELSE IF clock = PANIC THEN WriteReverts("SafeCast", ckpts)
     ELSE IF toUint(clock, MaxUint32) = PANIC \/ toUint(newWeight, MaxUint224) = PANIC
       THEN WriteReverts("SafeCast", ckpts)
     ELSE Written(<<Checkpoint(clock, newWeight)>>)

\* _writeCheckpoint(ckpts, op, delta); op: "_add" or "_subtract"
_writeCheckpoint(ckpts, op, delta) ==
  LET pos == Len(ckpts)
      oldCkpt == IF pos = 0 THEN Checkpoint(0, 0) ELSE _unsafeAccess(ckpts, pos - 1)
      oldWeight == oldCkpt.votes
      newWeight == call(op, oldWeight, delta)
  IN IF newWeight = PANIC THEN WriteReverts("Panic", ckpts)
     ELSE IF clock = PANIC THEN WriteReverts("SafeCast", ckpts)
     ELSE IF pos > 0 /\ oldCkpt.fromBlock = clock
       THEN IF toUint(newWeight, MaxUint224) = PANIC
            THEN WriteReverts("SafeCast", ckpts)
            ELSE Written([ckpts EXCEPT ![pos].votes = toUint(newWeight, MaxUint224)])
     ELSE IF toUint(clock, MaxUint32) = PANIC \/ toUint(newWeight, MaxUint224) = PANIC
       THEN WriteReverts("SafeCast", ckpts)
     ELSE Written(Append(ckpts, Checkpoint(toUint(clock, MaxUint32),
                                           toUint(newWeight, MaxUint224))))

\* What a hook of Checkpoints leaves behind: err = "ok" and the new series, or
\* the reason of the revert and every series as it was.
CkptRevert(reason) ==
  [err |-> reason, checkpoints |-> _checkpoints,
   totalSupplyCheckpoints |-> _totalSupplyCheckpoints]

CkptOk(checkpoints, totalSupplyCheckpoints) ==
  [err |-> "ok", checkpoints |-> checkpoints,
   totalSupplyCheckpoints |-> totalSupplyCheckpoints]

\* _mint(token, amount)
_mint(token, amount) ==
  LET w == _writeCheckpoint(_totalSupplyCheckpoints[token], "_add", amount) IN
    IF w.err # "ok" THEN CkptRevert(w.err)
    ELSE CkptOk(_checkpoints, [_totalSupplyCheckpoints EXCEPT ![token] = w.ckpts])

\* _burn(token, amount)
_burn(token, amount) ==
  LET w == _writeCheckpoint(_totalSupplyCheckpoints[token], "_subtract", amount) IN
    IF w.err # "ok" THEN CkptRevert(w.err)
    ELSE CkptOk(_checkpoints, [_totalSupplyCheckpoints EXCEPT ![token] = w.ckpts])

\* _afterTokenTransfer writing the total supply too, for a transfer from or
\* to ZeroAddress
_afterTokenTransferWritesSupply(token, from, to, amount) ==
  IF from # to /\ amount > 0
  THEN LET out == IF from # ZeroAddress
                    THEN _writeCheckpoint(_checkpoints[token][from], "_subtract", amount)
                    ELSE Written(<<>>)
           afterOut == IF from # ZeroAddress
                         THEN [_checkpoints EXCEPT ![token][from] = out.ckpts]
                         ELSE _checkpoints
           inn == IF to # ZeroAddress
                    THEN _writeCheckpoint(afterOut[token][to], "_add", amount)
                    ELSE Written(<<>>)
           afterIn == IF to # ZeroAddress
                        THEN [afterOut EXCEPT ![token][to] = inn.ckpts]
                        ELSE afterOut
           supply == IF from = ZeroAddress
                       THEN _writeCheckpoint(_totalSupplyCheckpoints[token], "_add", amount)
                     ELSE IF to = ZeroAddress
                       THEN _writeCheckpoint(_totalSupplyCheckpoints[token], "_subtract", amount)
                     ELSE Written(_totalSupplyCheckpoints[token])
       IN IF out.err # "ok" THEN CkptRevert(out.err)
          ELSE IF inn.err # "ok" THEN CkptRevert(inn.err)
          ELSE IF supply.err # "ok" THEN CkptRevert(supply.err)
          ELSE CkptOk(afterIn, [_totalSupplyCheckpoints EXCEPT ![token] = supply.ckpts])
  ELSE CkptOk(_checkpoints, _totalSupplyCheckpoints)

\* _afterTokenTransfer keeping the write of from when the write of to fails
_afterTokenTransferKeepsDebit(token, from, to, amount) ==
  IF from # to /\ amount > 0
  THEN LET out == IF from # ZeroAddress
                    THEN _writeCheckpoint(_checkpoints[token][from], "_subtract", amount)
                    ELSE Written(<<>>)
           afterOut == IF from # ZeroAddress
                         THEN [_checkpoints EXCEPT ![token][from] = out.ckpts]
                         ELSE _checkpoints
           inn == IF to # ZeroAddress
                    THEN _writeCheckpoint(afterOut[token][to], "_add", amount)
                    ELSE Written(<<>>)
           afterIn == IF to # ZeroAddress
                        THEN [afterOut EXCEPT ![token][to] = inn.ckpts]
                        ELSE afterOut
       IN IF out.err # "ok" THEN CkptRevert(out.err)
          ELSE IF inn.err # "ok"
            THEN [err |-> inn.err, checkpoints |-> afterOut,
                  totalSupplyCheckpoints |-> _totalSupplyCheckpoints]
          ELSE CkptOk(afterIn, _totalSupplyCheckpoints)
  ELSE CkptOk(_checkpoints, _totalSupplyCheckpoints)

\* _afterTokenTransfer(token, from, to, amount)
_afterTokenTransfer(token, from, to, amount) ==
  IF from # to /\ amount > 0
  THEN LET out == IF from # ZeroAddress
                    THEN _writeCheckpoint(_checkpoints[token][from], "_subtract", amount)
                    ELSE Written(<<>>)
           afterOut == IF from # ZeroAddress
                         THEN [_checkpoints EXCEPT ![token][from] = out.ckpts]
                         ELSE _checkpoints
           inn == IF to # ZeroAddress
                    THEN _writeCheckpoint(afterOut[token][to], "_add", amount)
                    ELSE Written(<<>>)
           afterIn == IF to # ZeroAddress
                        THEN [afterOut EXCEPT ![token][to] = inn.ckpts]
                        ELSE afterOut
       IN IF out.err # "ok" THEN CkptRevert(out.err)
          ELSE IF inn.err # "ok" THEN CkptRevert(inn.err)
          ELSE CkptOk(afterIn, _totalSupplyCheckpoints)
  ELSE CkptOk(_checkpoints, _totalSupplyCheckpoints)

\* ---------------------------------------------------------------- actions
\* The transaction: the stores become what the call left behind.
Apply(op, amount, res) ==
  /\ schedules' = res.schedules
  /\ held' = res.held
  /\ sent' = res.sent
  /\ started' = res.started
  /\ emitted' = res.emitted
  /\ last' = [op |-> op, amount |-> amount, err |-> res.err]
  /\ UNCHANGED now

InitLockRelease ==
  /\ schedules = [t \in Tokens |-> [b \in Users |-> NoSchedule]]
  /\ now = 0
  /\ held = [t \in Tokens |-> 0]
  /\ sent = [t \in Tokens |-> [b \in Users |-> 0]]
  /\ started = [t \in Tokens |-> [b \in Users |-> 0]]
  /\ emitted = <<>>
  /\ last = [op |-> "deploy", amount |-> 0, err |-> "ok"]
  /\ events = <<>>
  /\ calls = <<>>

\* the series of the total supply of a token, among the series of its accounts
TotalSupply == "totalSupply"

\* No call of _writeCheckpoint yet.
NoWrites ==
  [t \in Tokens |-> [a \in Users \cup {TotalSupply} |-> [net |-> 0, blocks |-> {}]]]

\* One more call of _writeCheckpoint(series, op, delta) that succeeded, in
\* the current block; no call at ZeroAddress, which has no series.
noted(history, token, series, op, delta) ==
  IF series = ZeroAddress THEN history
  ELSE [history EXCEPT ![token][series] =
          [net |-> IF op = "_add" THEN @.net + delta ELSE @.net - delta,
           blocks |-> @.blocks \cup {blockNumber}]]

\* Checkpoints after construction: no checkpoint in any series.
InitCheckpoints ==
  /\ _checkpoints = [t \in Tokens |-> [a \in Users |-> <<>>]]
  /\ _totalSupplyCheckpoints = [t \in Tokens |-> <<>>]
  /\ blockNumber = 1
  /\ returned = 0
  /\ writes = NoWrites

\* a state of the hooks that holds no value yet
undefined == -1

\* The hooks as mounted on a ledger that is still empty: no vest is known,
\* no promise is pending, every event is still to come.  With the state of
\* the hooks the record holds what they read from the provider: head, the
\* number of the block being built, and vestBlocks, the block of the
\* ScheduleStarted event of each key; and queried, the history of the ranges
\* passed to queryFilter.
NoView ==
  [inbox |-> <<>>, vestIds |-> <<>>, vestClaimedAmounts |-> <<>>,
   fetched |-> <<>>, deploymentBlock |-> 0, head |-> 0, vestBlocks |-> <<>>,
   endBlock |-> undefined, loading |-> TRUE, queried |-> <<>>]

InitView == view = NoView

Init == InitLockRelease /\ InitCheckpoints /\ InitView

\* The inputs a specification draws the calls from: the tokens and
\* beneficiaries schedules are created for, the callers and recipients of
\* releases, and the numbers passed.
Scope ==
  [tokens |-> Tokens, users |-> Users, callers |-> Users, recipients |-> Users,
   totals |-> {0, MaxTotal},
   amounts |-> 0..MaxAmount, starts |-> {0}, durations |-> {0, OneDuration},
   fees |-> {0}, maxTime |-> MaxTime]

NumScope ==
  [tokens |-> {"token1"}, users |-> {"ben1"}, callers |-> {"ben1"},
   recipients |-> {"ben1"}, totals |-> 0..NumMaxTotal,
   amounts |-> 0..NumMaxTotal, starts |-> 0..NumMaxStart,
   durations |-> 0..MaxUint128, fees |-> 0..MaxFee, maxTime |-> NumMaxTime]

\* What safeTransferFrom can do when createSchedule reaches it: revert, or
\* deliver the units less a fee.  A call that reverts in its validations
\* never calls the token.
Deliveries(in, token, beneficiary, total, duration) ==
  IF createSchedule(Owner, token, beneficiary, total, 0, duration, total).err
       \in {"ok", "ZeroAmount"}
  THEN {REVERTS} \cup {total - fee : fee \in {f \in in.fees : f <= total}}
  ELSE {REVERTS}

\* The starts a call is made with; the validations do not read start, so a
\* call that reverts in them is taken with one start only.
Starts(in, token, beneficiary, total, duration) ==
  IF Deliveries(in, token, beneficiary, total, duration) = {REVERTS}
  THEN {0}
  ELSE in.starts

\* What safeTransfer can do when _release reaches it: go through or revert;
\* it reverts when the contract holds less than the amount.
Transfers(token, beneficiary, amount) ==
  IF _release(beneficiary, token, beneficiary, beneficiary, amount, TRUE).err = "ok"
  THEN IF held[token] >= amount THEN BOOLEAN ELSE {FALSE}
  ELSE {TRUE}

CreateSchedule(in) ==
  \E token \in in.tokens \cup {ZeroAddress},
     beneficiary \in in.users \cup {ZeroAddress},
     total \in in.totals, duration \in in.durations :
    \E start \in Starts(in, token, beneficiary, total, duration),
       delivered \in Deliveries(in, token, beneficiary, total, duration) :
      Apply("createSchedule", total,
            createSchedule(Owner, token, beneficiary, total, start, duration,
                           delivered))

Release(in) ==
  \E sender \in in.callers, token \in in.tokens, beneficiary \in in.users,
     amount \in in.amounts :
    \E transferOk \in Transfers(token, beneficiary, amount) :
      Apply("release", amount, release(sender, token, beneficiary, amount, transferOk))

ReleaseAll(in) ==
  \E sender \in in.callers, token \in in.tokens, beneficiary \in in.users :
    \E transferOk \in Transfers(token, beneficiary,
                                getReleasable(token, beneficiary)) :
      Apply("releaseAll", 0, releaseAll(sender, token, beneficiary, transferOk))

ReleaseTo(in) ==
  \E sender \in in.callers, token \in in.tokens, recipient \in in.recipients,
     amount \in in.amounts :
    \E transferOk \in Transfers(token, sender, amount) :
      Apply("releaseTo", amount,
            releaseTo(sender, token, recipient, amount, transferOk))

ReleaseToAll(in) ==
  \E sender \in in.callers, token \in in.tokens, recipient \in in.recipients :
    \E transferOk \in Transfers(token, sender, getReleasable(token, sender)) :
      Apply("releaseToAll", 0,
            releaseToAll(sender, token, recipient, transferOk))

\* A later block: block.timestamp grows.
Tick(in) ==
  /\ now < in.maxTime
  /\ now' = now + 1
  /\ emitted' = <<>>
  /\ last' = [op |-> "tick", amount |-> 0, err |-> "ok"]
  /\ UNCHANGED <<schedules, held, sent, started>>

\* A step of LockRelease: Checkpoints is another contract and is not called.
\* The event log is followed in SpecLog only, where it grows by the events of
\* the transaction.
OfLockRelease(step) ==
  step /\ UNCHANGED <<events, calls, view>> /\ UNCHANGED ckptVars
Logged(step) ==
  /\ step
  /\ events' = events \o emitted'
  /\ UNCHANGED <<calls, view>>
  /\ UNCHANGED ckptVars

Next ==
  \/ OfLockRelease(CreateSchedule(Scope))
  \/ OfLockRelease(Release(Scope))
  \/ OfLockRelease(ReleaseAll(Scope))
  \/ OfLockRelease(ReleaseTo(Scope))
  \/ OfLockRelease(ReleaseToAll(Scope))
  \/ OfLockRelease(Tick(Scope))

Spec == Init /\ [][Next]_vars

NumNext ==
  \/ OfLockRelease(CreateSchedule(NumScope))
  \/ OfLockRelease(Release(NumScope))
  \/ OfLockRelease(ReleaseAll(NumScope))
  \/ OfLockRelease(ReleaseTo(NumScope))
  \/ OfLockRelease(ReleaseToAll(NumScope))
  \/ OfLockRelease(Tick(NumScope))

SpecNum == Init /\ [][NumNext]_vars

\* One key, every caller and recipient, the event log kept.
LogScope ==
  [tokens |-> {"token1"}, users |-> {"ben1"}, callers |-> Users,
   recipients |-> Users, totals |-> {0, LogMaxTotal},
   amounts |-> 0..LogMaxTotal, starts |-> {0}, durations |-> {0, LogMaxTime},
   fees |-> {0}, maxTime |-> LogMaxTime]

LogNext ==
  \/ Logged(CreateSchedule(LogScope))
  \/ Logged(Release(LogScope))
  \/ Logged(ReleaseAll(LogScope))
  \/ Logged(ReleaseTo(LogScope))
  \/ Logged(ReleaseToAll(LogScope))
  \/ Logged(Tick(LogScope))

SpecLog == Init /\ [][LogNext]_vars

\* ------------------------------------------- calls that the token re-enters
\* The token is a contract of its own: inside safeTransferFrom or
\* safeTransfer it can call LockRelease again (a transfer hook) before it
\* returns.  A call of LockRelease is then taken in two steps: up to its call
\* of the token, and from the token's return (or revert) on.

\* The stores as they are when a call starts, which a revert of that call
\* brings back.
StoresNow ==
  [Revert("TransferFailed") EXCEPT
     !.emitted = IF calls = <<>> THEN <<>> ELSE emitted]

\* a call of LockRelease inside its call of the token
Frame(fn, sender, token, beneficiary, recipient, amount, start, duration) ==
  [fn |-> fn, sender |-> sender, token |-> token, beneficiary |-> beneficiary,
   recipient |-> recipient, amount |-> amount, start |-> start,
   duration |-> duration, before |-> held[token], saved |-> StoresNow]

\* released written after safeTransfer instead of before it
releasedOfLate(point, stored, amount) ==
  IF point = "beforeTransfer" THEN stored ELSE stored + amount

\* released of the key of a call of _release: increased before safeTransfer,
\* left alone after it
releasedOf(point, stored, amount) ==
  IF point = "beforeTransfer" THEN stored + amount ELSE stored

\* A call starts and reaches its call of the token.
Enter(frame, written) ==
  /\ Len(calls) < MaxDepth
  /\ calls' = Append(calls, frame)
  /\ schedules' = written
  /\ emitted' = IF calls = <<>> THEN <<>> ELSE emitted
  /\ UNCHANGED <<now, held, sent, started, last>>

\* the innermost call in progress and the calls around it
top == calls[Len(calls)]
outer == SubSeq(calls, 1, Len(calls) - 1)

\* the transaction ends when the outermost call does
ended(op, amount, err) ==
  IF Len(calls) = 1 THEN [op |-> op, amount |-> amount, err |-> err] ELSE last

\* release / releaseTo up to safeTransfer (release: recipient = beneficiary,
\* releaseTo: beneficiary = msg.sender).  A call that reverts in its
\* validations is a whole transaction when it is the outermost, and leaves
\* no trace when the token made it.
EnterRelease(in) ==
  \E sender \in in.callers, token \in in.tokens, beneficiary \in in.users,
     recipient \in in.recipients, amount \in in.amounts :
    /\ recipient = beneficiary \/ sender = beneficiary
    /\ LET checks == _release(sender, token, beneficiary, recipient, amount, FALSE) IN
         IF checks.err = "TransferFailed"
         THEN Enter(Frame("release", sender, token, beneficiary, recipient,
                          amount, 0, 0),
                    [schedules EXCEPT ![token][beneficiary].released =
                       releasedOf("beforeTransfer", @, amount)])
         ELSE /\ calls = <<>>
              /\ Apply("release", amount, checks)
              /\ UNCHANGED calls

\* safeTransfer returns: the units have left the contract, the event is emitted.
ReturnRelease ==
  /\ calls # <<>>
  /\ top.fn = "release"
  /\ held[top.token] >= top.amount
  /\ schedules' = [schedules EXCEPT ![top.token][top.beneficiary].released =
                     releasedOf("afterTransfer", @, top.amount)]
  /\ held' = [held EXCEPT ![top.token] = @ - top.amount]
  /\ sent' = [sent EXCEPT ![top.token][top.beneficiary] = @ + top.amount]
  /\ emitted' = Append(emitted, TokensReleased(top.token, top.beneficiary,
                                               top.recipient, top.amount,
                                               top.sender))
  /\ last' = ended("release", top.amount, "ok")
  /\ calls' = outer
  /\ UNCHANGED <<now, started>>

\* createSchedule up to safeTransferFrom: the validations and the balance
\* read before the transfer.
EnterCreateSchedule(in) ==
  \E sender \in in.callers, token \in in.tokens, beneficiary \in in.users,
     total \in in.totals, start \in in.starts, duration \in in.durations :
    LET checks == createSchedule(sender, token, beneficiary, total, start,
                                 duration, REVERTS) IN
      IF checks.err = "TransferFailed"
      THEN Enter(Frame("createSchedule", sender, token, beneficiary,
                       ZeroAddress, total, start, duration),
                 schedules)
      ELSE /\ calls = <<>>
           /\ Apply("createSchedule", total, checks)
           /\ UNCHANGED calls

\* safeTransferFrom returns: the balance is read again, the difference to the
\* balance read at the start is recorded as the total.
ReturnCreateSchedule(in) ==
  /\ calls # <<>>
  /\ top.fn = "createSchedule"
  /\ \E fee \in {f \in in.fees : f <= top.amount} :
       LET delivered == top.amount - fee
           afterr == held[top.token] + delivered
           result == afterr - top.before
           res == IF result = 0 THEN top.saved
                  ELSE recordSchedule(top.sender, top.token, top.beneficiary,
                                      result, top.start, top.duration, delivered)
       IN /\ schedules' = res.schedules
          /\ held' = res.held
          /\ sent' = res.sent
          /\ started' = res.started
          /\ emitted' = IF result = 0 THEN res.emitted
                        ELSE emitted \o res.emitted
          /\ last' = ended("createSchedule", top.amount,
                           IF result = 0 THEN "ZeroAmount" ELSE "ok")
  /\ calls' = outer
  /\ UNCHANGED now

\* The token's call reverts (its transfer fails, or it reverts after the
\* calls it made): the call reverts with everything done since it started.
RevertCall ==
  /\ calls # <<>>
  /\ schedules' = top.saved.schedules
  /\ held' = top.saved.held
  /\ sent' = top.saved.sent
  /\ started' = top.saved.started
  /\ emitted' = top.saved.emitted
  /\ last' = ended(top.fn, top.amount, "TransferFailed")
  /\ calls' = outer
  /\ UNCHANGED now

\* a step inside a transaction, and a whole transaction of its own
InCall(step) == step /\ UNCHANGED <<events, view>> /\ UNCHANGED ckptVars
Outermost(step) == calls = <<>> /\ OfLockRelease(step)

\* The same with the event log kept: the events of a transaction are in the
\* log when its outermost call has returned.
InCallLogged(step) ==
  /\ step
  /\ events' = IF calls' = <<>> THEN events \o emitted' ELSE events
  /\ UNCHANGED view
  /\ UNCHANGED ckptVars
OutermostLogged(step) == calls = <<>> /\ Logged(step)

\* A token that calls release / releaseTo again from inside safeTransfer.
ReScope ==
  [tokens |-> {"token1"}, users |-> {"ben1"}, callers |-> {"ben1"},
   recipients |-> {"ben1"}, totals |-> {0, ReMaxTotal},
   amounts |-> 0..ReMaxAmount, starts |-> {0}, durations |-> {0, 1, MaxUint128},
   fees |-> {0}, maxTime |-> ReMaxTime]

ReenterNext ==
  \/ Outermost(CreateSchedule(ReScope))
  \/ InCall(EnterRelease(ReScope))
  \/ InCall(ReturnRelease)
  \/ InCall(RevertCall)
  \/ Outermost(Tick(ReScope))

SpecReenter == Init /\ [][ReenterNext]_vars

\* A token that calls createSchedule again from inside safeTransferFrom, for
\* two keys of the token.
CbScope ==
  [tokens |-> {"token1"}, users |-> Users, callers |-> {Owner},
   recipients |-> Users, totals |-> {0, CbMaxTotal},
   amounts |-> 0..CbMaxTotal, starts |-> {0}, durations |-> {0, 1},
   fees |-> {0}, maxTime |-> CbMaxTime]

ReenterCreateNext ==
  \/ InCallLogged(EnterCreateSchedule(CbScope))
  \/ InCallLogged(ReturnCreateSchedule(CbScope))
  \/ InCallLogged(RevertCall)
  \/ OutermostLogged(Release(CbScope))
  \/ OutermostLogged(Tick(CbScope))

SpecReenterCreate == Init /\ [][ReenterCreateNext]_vars

\* ------------------------------------------------- actions of Checkpoints
\* A transaction that runs a hook of Checkpoints.
ApplyCkpt(op, amount, res) ==
  /\ _checkpoints' = res.checkpoints
  /\ _totalSupplyCheckpoints' = res.totalSupplyCheckpoints
  /\ last' = [op |-> op, amount |-> amount, err |-> res.err]
  /\ returned' = 0
  /\ emitted' = <<>>
  /\ UNCHANGED <<schedules, now, held, sent, started, events, blockNumber,
                 calls, view>>

\* A call of a view of Checkpoints with the argument arg.
CallView(op, arg, res) ==
  /\ last' = [op |-> op, amount |-> arg, err |-> res.err]
  /\ returned' = res.value
  /\ emitted' = <<>>
  /\ UNCHANGED <<schedules, now, held, sent, started, events, blockNumber,
                 _checkpoints, _totalSupplyCheckpoints, calls, writes, view>>

\* The inputs of the specification of the writes.
CkptScope ==
  [tokens |-> {"token1"}, accounts |-> {"ben1"}, amounts |-> 0..CkptMaxAmount,
   timepoints |-> 0..CkptMaxBlock, maxBlock |-> CkptMaxBlock]

\* The inputs of the specification of the lookups.
LookupScope ==
  [tokens |-> {"token1"}, accounts |-> {"ben1"}, amounts |-> {1},
   timepoints |-> 0..(MaxMarker + 1), maxBlock |-> MaxMarker + 1]

Mint(in) ==
  \E token \in in.tokens, amount \in in.amounts :
    /\ ApplyCkpt("mint", amount, _mint(token, amount))
    /\ writes' = IF _mint(token, amount).err = "ok"
                   THEN noted(writes, token, TotalSupply, "_add", amount)
                   ELSE writes

Burn(in) ==
  \E token \in in.tokens, amount \in in.amounts :
    /\ ApplyCkpt("burn", amount, _burn(token, amount))
    /\ writes' = IF _burn(token, amount).err = "ok"
                   THEN noted(writes, token, TotalSupply, "_subtract", amount)
                   ELSE writes

AfterTokenTransfer(in) ==
  \E token \in in.tokens, from \in in.accounts \cup {ZeroAddress},
     to \in in.accounts \cup {ZeroAddress}, amount \in in.amounts :
    /\ ApplyCkpt("transfer", amount, _afterTokenTransfer(token, from, to, amount))
    /\ writes' =
         IF _afterTokenTransfer(token, from, to, amount).err = "ok"
              /\ from # to /\ amount > 0
         THEN noted(noted(writes, token, from, "_subtract", amount),
                    token, to, "_add", amount)
         ELSE writes

GetPastTotalSupply(in) ==
  \E token \in in.tokens, timepoint \in in.timepoints :
    CallView("getPastTotalSupply", timepoint, getPastTotalSupply(token, timepoint))

\* A later block: block.number grows.
Mine(in) ==
  /\ blockNumber < in.maxBlock
  /\ blockNumber' = blockNumber + 1
  /\ last' = [op |-> "mine", amount |-> 0, err |-> "ok"]
  /\ returned' = 0
  /\ emitted' = <<>>
  /\ UNCHANGED <<schedules, now, held, sent, started, events,
                 _checkpoints, _totalSupplyCheckpoints, calls, writes, view>>

CkptNext ==
  \/ Mint(CkptScope)
  \/ Burn(CkptScope)
  \/ AfterTokenTransfer(CkptScope)
  \/ Mine(CkptScope)

SpecCkpt == Init /\ [][CkptNext]_vars

\* Transfers between two accounts, from and to ZeroAddress included.
TransferScope ==
  [tokens |-> {"token1"}, accounts |-> Users, amounts |-> 0..CkptMaxAmount,
   timepoints |-> 0..CkptMaxBlock, maxBlock |-> CkptMaxBlock]

TransferNext ==
  \/ AfterTokenTransfer(TransferScope)
  \/ Mine(TransferScope)

SpecTransfer == Init /\ [][TransferNext]_vars

\* the elements of a set of numbers in increasing order
RECURSIVE Ascending(_)
Ascending(S) ==
  IF S = {} THEN <<>>
  ELSE LET m == CHOOSE x \in S : \A y \in S : y <= x
       IN Append(Ascending(S \ {m}), m)

\* The series a lookup can meet: checkpoints from any blocks of 1..MaxMarker,
\* each block at most once and in increasing order (what _writeCheckpoint
\* leaves), with any votes.
Series ==
  UNION { { [i \in 1..Cardinality(blocks) |->
               Checkpoint(Ascending(blocks)[i], votes[i])] :
            votes \in [1..Cardinality(blocks) -> {1, MaxVotes}] } :
          blocks \in SUBSET (1..MaxMarker) }

\* Checkpoints with a total-supply series written by earlier mints and burns,
\* in the block of its last checkpoint.
LookupInit ==
  /\ InitLockRelease
  /\ InitView
  /\ _checkpoints = [t \in Tokens |-> [a \in Users |-> <<>>]]
  /\ \E ckpts \in Series :
       /\ _totalSupplyCheckpoints =
            [t \in Tokens |-> IF t = "token1" THEN ckpts ELSE <<>>]
       /\ blockNumber = IF ckpts = <<>> THEN 1 ELSE ckpts[Len(ckpts)].fromBlock
       /\ writes =
            [NoWrites EXCEPT !["token1"][TotalSupply] =
               [net |-> IF ckpts = <<>> THEN 0 ELSE ckpts[Len(ckpts)].votes,
                blocks |-> {ckpts[i].fromBlock : i \in 1..Len(ckpts)}]]
  /\ returned = 0

LookupNext ==
  \/ GetPastTotalSupply(LookupScope)
  \/ Mine(LookupScope)

SpecLookup == LookupInit /\ [][LookupNext]_vars

\* ------------------------------------------------------------------ claims
Keys == Tokens \X Users

\* the block.timestamps the claims range over
Times == 0..(NumMaxTime + 1)

\* a call left every store as it was and emitted nothing
Rejected(res, reason) == res = Revert(reason)

\* C1 (Bounding): in every reachable state, at the current block.timestamp,
\* getTotalMatured returns for every recorded schedule a value m with
\* 0 <= released <= m <= total.
C1_Bounding ==
  \A k \in Keys :
    started[k[1]][k[2]] > 0 =>
      LET m == getTotalMatured(k[1], k[2]) IN
        /\ m # PANIC
        /\ 0 <= getReleased(k[1], k[2])
        /\ getReleased(k[1], k[2]) <= m
        /\ m <= getTotal(k[1], k[2])

\* What is left of C1 where getTotalMatured returns: released <= m <= total.
C1_BoundingWhereReturned ==
  \A k \in Keys :
    LET m == getTotalMatured(k[1], k[2]) IN
      m # PANIC =>
        /\ 0 <= getReleased(k[1], k[2])
        /\ getReleased(k[1], k[2]) <= m
        /\ m <= getTotal(k[1], k[2])

\* floor(total * clamp(t - start, 0, duration) / duration)
Clamp(x, lo, hi) == IF x < lo THEN lo ELSE IF x > hi THEN hi ELSE x
LinearMatured(schedule, t) ==
  (schedule.total * Clamp(t - schedule.start, 0, schedule.duration))
    \div schedule.duration

\* C6: for every recorded schedule and every block.timestamp t,
\* getTotalMatured returns floor(total * clamp(t - start, 0, duration) / duration):
\* 0 before start, total from start + duration on.
C6_MaturedIsLinear ==
  \A k \in Keys : \A t \in Times :
    started[k[1]][k[2]] > 0 =>
      LET schedule == schedules[k[1]][k[2]] IN
        /\ maturedAt(schedule, t) = LinearMatured(schedule, t)
        /\ t < schedule.start => maturedAt(schedule, t) = 0
        /\ t >= schedule.start + schedule.duration =>
             maturedAt(schedule, t) = schedule.total

\* C7 (Monotonicity): for every recorded schedule and all times t1 <= t2,
\* getTotalMatured returns at both and its value at t1 is at most its value at t2.
C7_Monotonic ==
  \A k \in Keys : \A t1 \in Times, t2 \in Times :
    (started[k[1]][k[2]] > 0 /\ t1 <= t2) =>
      LET schedule == schedules[k[1]][k[2]] IN
        /\ maturedAt(schedule, t1) # PANIC
        /\ maturedAt(schedule, t2) # PANIC
        /\ maturedAt(schedule, t1) <= maturedAt(schedule, t2)

\* What is left of C6 and C7 on the times where getTotalMatured returns.
C6C7_WhereReturned ==
  \A k \in Keys : \A t1 \in Times, t2 \in Times :
    LET schedule == schedules[k[1]][k[2]] IN
      (started[k[1]][k[2]] > 0 /\ t1 <= t2 /\ maturedAt(schedule, t1) # PANIC
         /\ maturedAt(schedule, t2) # PANIC) =>
        /\ maturedAt(schedule, t1) = LinearMatured(schedule, t1)
        /\ maturedAt(schedule, t1) <= maturedAt(schedule, t2)

ReleaseOps == {"release", "releaseAll", "releaseTo", "releaseToAll"}

\* C2 (Claim conservation): a release or releaseTo that succeeds adds exactly
\* the released amount (the amount asked for, in the forms with an amount) to
\* released of its key, and leaves total, start and duration of that key and
\* the schedule of every other key as they were.
C2_ClaimConservation ==
  [][(last'.op \in ReleaseOps /\ last'.err = "ok") =>
       /\ Len(emitted') = 1
       /\ emitted'[1].name = "TokensReleased"
       /\ last'.op \in {"release", "releaseTo"} => emitted'[1].amount = last'.amount
       /\ schedules' =
            [schedules EXCEPT ![emitted'[1].token][emitted'[1].beneficiary].released =
               @ + emitted'[1].amount]]_vars

\* a release of 1 unit went through while three schedules are recorded
C2_Witness ==
  /\ last = [op |-> "releaseTo", amount |-> 1, err |-> "ok"]
  /\ emitted[1].beneficiary = "ben1"
  /\ emitted[1].recipient = "ben2"
  /\ emitted[1].token = "token1"
  /\ getReleased("token1", "ben1") = 1
  /\ started["token1"]["ben2"] = 1
  /\ started["token2"]["ben1"] = 1

\* C3 (Fail-atomic release): when the token's transfer of a release or
\* releaseTo fails, released of the key, every other store and the token's
\* balances are as before the call and no event is emitted.
C3_FailAtomic ==
  [][(last'.op \in ReleaseOps /\ last'.err = "TransferFailed") =>
       /\ schedules' = schedules
       /\ held' = held
       /\ sent' = sent
       /\ started' = started
       /\ emitted' = <<>>]_vars

\* a release of a releasable unit was called and the token's transfer failed
C3_Witness ==
  /\ last = [op |-> "release", amount |-> 1, err |-> "TransferFailed"]
  /\ \E k \in Keys : getReleasable(k[1], k[2]) > 0 /\ getReleased(k[1], k[2]) > 0

\* C4 (Idempotent creation guard): at every reachable state, a createSchedule
\* with valid arguments for a key that has a schedule reverts with
\* DuplicateSchedule, whatever the token would deliver: no store changes, no
\* transfer is made, nothing is emitted; and no key is ever created twice.
C4_DuplicateGuard ==
  \A k \in Keys :
    /\ started[k[1]][k[2]] <= 1
    /\ started[k[1]][k[2]] > 0 =>
         \A total \in 1..NumMaxTotal, start \in {0, NumMaxStart},
            duration \in 1..MaxUint128 :
           \A delivered \in {REVERTS} \cup ((total - MaxFee)..total) :
             Rejected(createSchedule(Owner, k[1], k[2], total, start, duration,
                                     delivered),
                      "DuplicateSchedule")

\* a second createSchedule for a key was rejected after part of the first
\* schedule was released
C4_Witness ==
  /\ last.op = "createSchedule"
  /\ last.err = "DuplicateSchedule"
  /\ started["token1"]["ben1"] = 1
  /\ getReleased("token1", "ben1") > 0
  /\ getReleased("token1", "ben1") < getTotal("token1", "ben1")

\* C5: a createSchedule that succeeds records total = the units by which the
\* contract's token balance grew (what the token delivered, not what was
\* requested), released = 0 and the start and duration passed.
C5_RecordsReceived ==
  /\ \A k \in Keys, total \in 1..NumMaxTotal, start \in {0, NumMaxStart},
        duration \in {1, MaxUint128} :
       \A delivered \in 0..total :
         LET res == createSchedule(Owner, k[1], k[2], total, start, duration,
                                   delivered)
         IN res.err = "ok" =>
              /\ res.schedules[k[1]][k[2]] =
                   [total |-> delivered, released |-> 0,
                    start |-> start, duration |-> duration]
              /\ res.held[k[1]] - held[k[1]] = delivered
  /\ (last.op = "createSchedule" /\ last.err = "ok") =>
       /\ getReleased(emitted[1].token, emitted[1].beneficiary) = 0
       /\ getTotal(emitted[1].token, emitted[1].beneficiary) <= last.amount
       /\ getTotal(emitted[1].token, emitted[1].beneficiary) <= held[emitted[1].token]

\* 4 units were requested, the token delivered 3, the total recorded is 3
C5_Witness ==
  /\ last = [op |-> "createSchedule", amount |-> 4, err |-> "ok"]
  /\ getTotal("token1", "ben1") = 3
  /\ held["token1"] = 3

\* C8: at every reachable state and for every key, getReleasable returns
\* getTotalMatured minus the sum of the amounts released so far for the key;
\* the subtraction never underflows (getReleasable reverts only where
\* getTotalMatured itself reverts); for a key with no schedule it is 0.
C8_Releasable ==
  \A k \in Keys :
    LET m == getTotalMatured(k[1], k[2]) IN
      /\ m # PANIC =>
           /\ m >= getReleased(k[1], k[2])
           /\ getReleasable(k[1], k[2]) = m - sent[k[1]][k[2]]
      /\ getReleasable(k[1], k[2]) = PANIC <=> m = PANIC
      /\ started[k[1]][k[2]] = 0 => getReleasable(k[1], k[2]) = 0

\* total 4 over a duration of 2 from start 0: 1 unit was released when 2 had
\* matured, and at the end 3 are releasable
C8_Witness ==
  /\ schedules["token1"]["ben1"] =
       [total |-> 4, released |-> 1, start |-> 0, duration |-> 2]
  /\ sent["token1"]["ben1"] = 1
  /\ now = 2
  /\ getReleasable("token1", "ben1") = 3

\* C9 (OverClaim): at every reachable state, a release or releaseTo with an
\* amount greater than the key's releasable amount, that amount being
\* positive, reverts with OverClaim: released and every other store stay as
\* they are, no transfer is made, nothing is emitted.
C9_OverClaim ==
  /\ \A k \in Keys :
       LET unreleased == getReleasable(k[1], k[2]) IN
         (unreleased # PANIC /\ unreleased > 0) =>
           \A amount \in (unreleased + 1)..MaxUint256, transferOk \in BOOLEAN :
             /\ \A sender \in Users :
                  Rejected(release(sender, k[1], k[2], amount, transferOk),
                           "OverClaim")
             /\ \A recipient \in Users :
                  Rejected(releaseTo(k[2], k[1], recipient, amount, transferOk),
                           "OverClaim")
  /\ last.err = "OverClaim" => (last.op \in {"release", "releaseTo"} /\ emitted = <<>>)

\* a release of more than the positive releasable amount was rejected
C9_Witness ==
  /\ last.op = "releaseTo"
  /\ last.err = "OverClaim"
  /\ getReleasable("token1", "ben1") > 0
  /\ last.amount > getReleasable("token1", "ben1")
  /\ last.amount <= getTotal("token1", "ben1")

\* C10 (NoTokensDue): at every reachable state, for a key that has no schedule
\* or whose releasable amount is 0, release and releaseTo, with an amount and
\* without, revert with NoTokensDue and change nothing.
C10_NoTokensDue ==
  /\ \A k \in Keys :
       (started[k[1]][k[2]] = 0 \/ getReleasable(k[1], k[2]) = 0) =>
         \A transferOk \in BOOLEAN :
           /\ \A sender \in Users :
                Rejected(releaseAll(sender, k[1], k[2], transferOk), "NoTokensDue")
           /\ \A recipient \in Users :
                Rejected(releaseToAll(k[2], k[1], recipient, transferOk),
                         "NoTokensDue")
           /\ \A amount \in 0..NumMaxTotal :
                /\ \A sender \in Users :
                     Rejected(release(sender, k[1], k[2], amount, transferOk),
                              "NoTokensDue")
                /\ \A recipient \in Users :
                     Rejected(releaseTo(k[2], k[1], recipient, amount, transferOk),
                              "NoTokensDue")
  /\ last.err = "NoTokensDue" => (last.op \in ReleaseOps /\ emitted = <<>>)

\* a release of everything was rejected after all that had matured was
\* released, before the end of the schedule
C10_Witness ==
  /\ last.op = "releaseAll"
  /\ last.err = "NoTokensDue"
  /\ getReleased("token1", "ben1") > 0
  /\ getReleased("token1", "ben1") < getTotal("token1", "ben1")
  /\ getReleasable("token1", "ben1") = 0

\* C11 (createSchedule validation): at every reachable state, a createSchedule
\* with a zero beneficiary, a zero token, total = 0 or duration = 0 reverts
\* with the error of one of its invalid arguments, whatever the token would
\* do (the token is not called): no store changes, no schedule is recorded,
\* nothing is emitted.
C11_Validation ==
  /\ \A token \in Tokens \cup {ZeroAddress}, beneficiary \in Users \cup {ZeroAddress},
        total \in {0, 1, NumMaxTotal}, duration \in {0, 1} :
       (beneficiary = ZeroAddress \/ token = ZeroAddress \/ total = 0 \/ duration = 0) =>
         \A start \in {0, NumMaxStart}, delivered \in {REVERTS, 0, total} :
           LET res == createSchedule(Owner, token, beneficiary, total, start,
                                     duration, delivered)
           IN \/ duration = 0 /\ Rejected(res, "ZeroDuration")
              \/ beneficiary = ZeroAddress /\ Rejected(res, "ZeroBeneficiary")
              \/ token = ZeroAddress /\ Rejected(res, "ZeroToken")
              \/ total = 0 /\ Rejected(res, "ZeroTotal")
  /\ last.err \in {"ZeroDuration", "ZeroBeneficiary", "ZeroToken", "ZeroTotal"} =>
       (last.op = "createSchedule" /\ emitted = <<>>)

\* a createSchedule with total = 0 was rejected while the contract holds the
\* units of a schedule
C11_Witness ==
  /\ last = [op |-> "createSchedule", amount |-> 0, err |-> "ZeroTotal"]
  /\ held["token1"] > 0
  /\ started["token1"]["ben1"] = 1

\* C12 (createSchedule transfer failure): at every reachable state, a
\* createSchedule with valid arguments for a key without a schedule, whose
\* safeTransferFrom reverts, reverts: no schedule is recorded, no store and no
\* balance changes, nothing is emitted; and a createSchedule for the same key
\* whose transfer goes through then still succeeds.
C12_TransferFailure ==
  /\ \A k \in Keys :
       getTotal(k[1], k[2]) = 0 =>
         \A total \in 1..MaxTotal, duration \in 1..OneDuration :
           /\ Rejected(createSchedule(Owner, k[1], k[2], total, 0, duration, REVERTS),
                       "TransferFailed")
           /\ createSchedule(Owner, k[1], k[2], total, 0, duration, total).err = "ok"
  /\ (last.op = "createSchedule" /\ last.err = "TransferFailed") => emitted = <<>>

\* a createSchedule failed in the token transfer, for a key that has no
\* schedule, while another key of the token has one
C12_Witness ==
  /\ last = [op |-> "createSchedule", amount |-> MaxTotal, err |-> "TransferFailed"]
  /\ started["token1"]["ben1"] = 0
  /\ getTotal("token1", "ben1") = 0
  /\ started["token1"]["ben2"] = 1
  /\ held["token1"] = getTotal("token1", "ben2")

C15_ReleasorAndRecipient ==
  /\ \A i \in DOMAIN events :
       (events[i].name = "TokensReleased"
          /\ events[i].recipient # events[i].beneficiary) =>
         events[i].releasor = events[i].beneficiary
  /\ \A token \in {"token1"}, c \in Users, other \in Users, amount \in 1..LogMaxTotal :
       LET rel == release(c, token, other, amount, TRUE)
           relTo == releaseTo(c, token, other, amount, TRUE)
       IN /\ rel.err = "ok" =>
               /\ rel.emitted = <<TokensReleased(token, other, other, amount, c)>>
               /\ rel.schedules =
                    [schedules EXCEPT ![token][other].released = @ + amount]
          /\ relTo.err = "ok" =>
               /\ relTo.emitted = <<TokensReleased(token, c, other, amount, c)>>
               /\ relTo.schedules =
                    [schedules EXCEPT ![token][c].released = @ + amount]

\* the log holds a release to the beneficiary called by someone else and a
\* releaseTo of the beneficiary to someone else
C15_Witness ==
  /\ Len(events) = 3
  /\ events[2] = TokensReleased("token1", "ben1", "ben1", 1, "ben2")
  /\ events[3] = TokensReleased("token1", "ben1", "ben2", 1, "ben1")

\* C16 (Domain events): in every step, a createSchedule that succeeds appends
\* exactly one ScheduleStarted(token, beneficiary, caller) for the key it
\* recorded, a release or releaseTo that succeeds appends exactly one
\* TokensReleased(token, beneficiary, recipient, amount, caller) whose amount
\* is what was added to released of its key, a call that fails appends
\* nothing, and the log before the step is a prefix of the log after it.
C16_DomainEvents ==
  [][/\ SubSeq(events', 1, Len(events)) = events
     /\ last'.err # "ok" => events' = events
     /\ (last'.op = "createSchedule" /\ last'.err = "ok") =>
          /\ Len(events') = Len(events) + 1
          /\ LET e == events'[Len(events')] IN
               /\ e.name = "ScheduleStarted"
               /\ e.creator = Owner
               /\ DOMAIN e = {"name", "token", "beneficiary", "creator"}
               /\ schedules[e.token][e.beneficiary] = NoSchedule
               /\ schedules' = [schedules EXCEPT ![e.token][e.beneficiary] =
                                  schedules'[e.token][e.beneficiary]]
               /\ schedules'[e.token][e.beneficiary].total # 0
     /\ (last'.op \in ReleaseOps /\ last'.err = "ok") =>
          /\ Len(events') = Len(events) + 1
          /\ LET e == events'[Len(events')] IN
               /\ e.name = "TokensReleased"
               /\ e.releasor \in Users
               /\ e.amount = schedules'[e.token][e.beneficiary].released
                               - schedules[e.token][e.beneficiary].released
               /\ e.amount > 0
               /\ last'.op \in {"release", "releaseAll"} =>
                    e.recipient = e.beneficiary
               /\ last'.op \in {"releaseTo", "releaseToAll"} =>
                    e.releasor = e.beneficiary]_vars

\* the log after a createSchedule, a release called by someone else, a failed
\* call and a release of the rest
C16_Witness ==
  /\ events = <<ScheduleStarted("token1", "ben1", Owner),
                TokensReleased("token1", "ben1", "ben1", 1, "ben2"),
                TokensReleased("token1", "ben1", "ben2", 2, "ben1")>>
  /\ last = [op |-> "releaseToAll", amount |-> 0, err |-> "ok"]
  /\ getReleased("token1", "ben1") = LogMaxTotal

\* ------------------------------------------------- claims on Checkpoints
\* the total-supply series of token1
Supply == _totalSupplyCheckpoints["token1"]

\* every series of Checkpoints
AllSeries ==
  {_totalSupplyCheckpoints[t] : t \in Tokens}
    \cup {_checkpoints[k[1]][k[2]] : k \in Keys}

\* the votes of the checkpoint with the greatest fromBlock <= timepoint, 0
\* when there is none
GreatestAtOrBefore(ckpts, timepoint) ==
  LET at == {i \in 1..Len(ckpts) : ckpts[i].fromBlock <= timepoint} IN
    IF at = {} THEN 0
    ELSE ckpts[CHOOSE i \in at :
                 \A j \in at : ckpts[j].fromBlock <= ckpts[i].fromBlock].votes

\* C17: for every series and every timepoint, _checkpointsLookup returns the
\* votes of the checkpoint with the greatest fromBlock <= timepoint, and 0
\* when the series is empty or timepoint is before its first checkpoint; a
\* checkpoint whose fromBlock is timepoint is the one returned; from a
\* checkpoint's fromBlock up to the next checkpoint's, its votes are returned.
C17_ValueAt ==
  /\ \A timepoint \in 0..(MaxMarker + 1) :
       LET value == _checkpointsLookup(Supply, timepoint) IN
         /\ value = GreatestAtOrBefore(Supply, timepoint)
         /\ (Supply = <<>> \/ timepoint < Supply[1].fromBlock) => value = 0
         /\ \A i \in 1..Len(Supply) :
              /\ Supply[i].fromBlock = timepoint => value = Supply[i].votes
              /\ (Supply[i].fromBlock <= timepoint
                    /\ (i = Len(Supply) \/ timepoint < Supply[i + 1].fromBlock)) =>
                   value = Supply[i].votes
  /\ (last.op = "getPastTotalSupply" /\ last.err = "ok") =>
       returned = GreatestAtOrBefore(Supply, last.amount)

\* a lookup at the block of the second of three checkpoints returned its votes
C17_Witness ==
  /\ Supply = <<Checkpoint(1, 1), Checkpoint(3, MaxVotes), Checkpoint(5, 1)>>
  /\ last = [op |-> "getPastTotalSupply", amount |-> 3, err |-> "ok"]
  /\ returned = MaxVotes

\* the scan from the last checkpoint down to checkpoint i for the first one
\* with fromBlock <= timepoint
RECURSIVE linearScan(_, _, _)
linearScan(ckpts, timepoint, i) ==
  IF i = 0 THEN 0
  ELSE IF ckpts[i].fromBlock <= timepoint THEN ckpts[i].votes
  ELSE linearScan(ckpts, timepoint, i - 1)

\* C18 (Lookup equivalence): for every series with strictly increasing
\* fromBlocks, of every length from 0 to more than 5, and every timepoint,
\* _checkpointsLookup returns what the linear scan for the last checkpoint with
\* fromBlock <= timepoint returns, and every position it reads is in
\* 0..length - 1; on a length above 5 it reads position length - sqrt(length).
C18_LookupEquivalence ==
  /\ \A timepoint \in 0..(MaxMarker + 1) :
       LET run == lookupRun(Supply, timepoint) IN
         /\ run.value = linearScan(Supply, timepoint, Len(Supply))
         /\ run.reads \subseteq 0..(Len(Supply) - 1)
         /\ Len(Supply) > 5 => (Len(Supply) - sqrt(Len(Supply))) \in run.reads
  /\ (last.op = "getPastTotalSupply" /\ last.err = "ok") =>
       returned = linearScan(Supply, last.amount, Len(Supply))

\* a lookup in a series of 7 checkpoints, at the block of the checkpoint the
\* search range is narrowed at
C18_Witness ==
  /\ Len(Supply) = 7
  /\ last = [op |-> "getPastTotalSupply", amount |-> 6, err |-> "ok"]
  /\ Supply[6].fromBlock = 6
  /\ returned = Supply[6].votes
  /\ Supply[5].votes # Supply[6].votes
  /\ Supply[7].votes # Supply[6].votes

\* the fromBlocks of a series strictly increase
Increasing(ckpts) ==
  \A i \in 1..Len(ckpts), j \in 1..Len(ckpts) :
    i < j => ckpts[i].fromBlock < ckpts[j].fromBlock

\* C19 (Series ordering): in every reachable state, every series (of an
\* account and of the total supply) has strictly increasing fromBlocks, none
\* above block.number, and every write that succeeds leaves it so: a write in
\* the block of the last checkpoint adds no checkpoint.
C19_SeriesOrdered ==
  \A ckpts \in AllSeries :
    /\ Increasing(ckpts)
    /\ \A i \in 1..Len(ckpts) : ckpts[i].fromBlock <= blockNumber
    /\ \A op \in {"_add", "_subtract"}, delta \in 0..CkptMaxAmount :
         LET w == _writeCheckpoint(ckpts, op, delta) IN
           w.err = "ok" =>
             /\ Increasing(w.ckpts)
             /\ (ckpts # <<>> /\ ckpts[Len(ckpts)].fromBlock = blockNumber) =>
                  Len(w.ckpts) = Len(ckpts)

\* the total supply was written in block 1 and several times in block 2 and
\* holds two checkpoints
C19_Witness ==
  /\ Supply = <<Checkpoint(1, 1), Checkpoint(2, 3)>>
  /\ last = [op |-> "mint", amount |-> 1, err |-> "ok"]
  /\ blockNumber = 2

\* C20 (effect of a write): at every reachable state, a _writeCheckpoint that
\* succeeds on a non-empty series whose last checkpoint is from the current
\* block changes the votes of that checkpoint to its votes + delta (or
\* - delta) and nothing else; otherwise it appends the one checkpoint
\* (block.number, last votes + delta or - delta), the last votes of an empty
\* series being 0.  Earlier checkpoints stay as they are.
C20_WriteEffect ==
  \A ckpts \in AllSeries :
    \A op \in {"_add", "_subtract"}, delta \in 0..(CkptMaxAmount + 1) :
      LET w == _writeCheckpoint(ckpts, op, delta)
          n == Len(ckpts)
          lastValue == IF n = 0 THEN 0 ELSE ckpts[n].votes
          newValue == IF op = "_add" THEN lastValue + delta ELSE lastValue - delta
      IN w.err = "ok" =>
           IF n > 0 /\ ckpts[n].fromBlock = blockNumber
           THEN /\ Len(w.ckpts) = n
                /\ w.ckpts[n] = [fromBlock |-> blockNumber, votes |-> newValue]
                /\ SubSeq(w.ckpts, 1, n - 1) = SubSeq(ckpts, 1, n - 1)
           ELSE /\ Len(w.ckpts) = n + 1
                /\ w.ckpts[n + 1] = [fromBlock |-> blockNumber, votes |-> newValue]
                /\ SubSeq(w.ckpts, 1, n) = ckpts

\* a burn in block 2 appended a checkpoint to the total supply written in
\* block 1, and the series of the account holds a checkpoint written twice
C20_Witness ==
  /\ Supply = <<Checkpoint(1, 2), Checkpoint(2, 1)>>
  /\ last = [op |-> "burn", amount |-> 1, err |-> "ok"]
  /\ _checkpoints["token1"]["ben1"] = <<Checkpoint(1, 2)>>

\* C21 as stated (FutureLookup): a lookup succeeds only for a timepoint
\* strictly below the fromBlock of the last checkpoint written.
C21_BoundedByLastWrite ==
  (last.op = "getPastTotalSupply" /\ last.err = "ok" /\ Supply # <<>>) =>
    last.amount < Supply[Len(Supply)].fromBlock

\* C21 as amended: getPastTotalSupply (and getPastVotes) reverts with
\* FutureLookup exactly when timepoint is not strictly below clock(), the
\* current block number; a lookup, failing or not, changes no series.
C21_FutureLookup ==
  [][last'.op = "getPastTotalSupply" =>
       /\ last'.err = "FutureLookup" <=> ~(last'.amount < blockNumber)
       /\ last'.err = "ok" <=> last'.amount < blockNumber
       /\ last'.err = "FutureLookup" => returned' = 0
       /\ \A account \in Users :
            getPastVotes("token1", account, last'.amount).err = last'.err
       /\ UNCHANGED <<_checkpoints, _totalSupplyCheckpoints, blockNumber>>]_vars

\* a lookup at the current block was rejected, three blocks after the last
\* checkpoint was written
C21_Witness ==
  /\ last = [op |-> "getPastTotalSupply", amount |-> 5, err |-> "FutureLookup"]
  /\ blockNumber = 5
  /\ Len(Supply) = 2
  /\ Supply[2].fromBlock = 2

\* C22 (Lookup bound by the current block): at every reachable state, with
\* c = clock(), getPastTotalSupply returns for every timepoint < c the votes
\* of the last checkpoint at or before timepoint (the last checkpoint's votes
\* for a timepoint at or after its fromBlock, 0 before the first checkpoint),
\* and reverts with FutureLookup for every timepoint >= c.
C22_BoundedByClock ==
  \A timepoint \in 0..(MaxMarker + 2) :
    LET r == getPastTotalSupply("token1", timepoint) IN
      /\ timepoint < blockNumber =>
           /\ r = Returns(GreatestAtOrBefore(Supply, timepoint))
           /\ (Supply # <<>> /\ Supply[Len(Supply)].fromBlock <= timepoint) =>
                r.value = Supply[Len(Supply)].votes
           /\ (Supply = <<>> \/ timepoint < Supply[1].fromBlock) => r.value = 0
      /\ timepoint >= blockNumber => r = ViewReverts("FutureLookup")

\* checkpoints from blocks 2, 4 and 7, the current block is 8: the lookup at
\* block 7, the block of the last checkpoint, returned its votes
C22_Witness ==
  /\ Supply = <<Checkpoint(2, 1), Checkpoint(4, MaxVotes), Checkpoint(7, 1)>>
  /\ blockNumber = 8
  /\ last = [op |-> "getPastTotalSupply", amount |-> 7, err |-> "ok"]
  /\ returned = 1
  /\ getPastTotalSupply("token1", 3) = Returns(1)
  /\ getPastTotalSupply("token1", 4) = Returns(MaxVotes)
  /\ getPastTotalSupply("token1", 1) = Returns(0)
  /\ getPastTotalSupply("token1", 8).err = "FutureLookup"

\* the votes of the last checkpoint of a series, 0 when it has none
Current(ckpts) == IF ckpts = <<>> THEN 0 ELSE ckpts[Len(ckpts)].votes

\* C24 (NegativeBalance): at every reachable state, a write that subtracts
\* more than the votes of the last checkpoint of a series (0 for an empty
\* series) reverts in _subtract and leaves every series as it was, through
\* _burn and _afterTokenTransfer as well; and no checkpoint holds votes
\* below 0 or above the uint224 range.
C24_NegativeBalance ==
  /\ \A ckpts \in AllSeries :
       /\ \A i \in 1..Len(ckpts) : ckpts[i].votes \in 0..MaxUint224
       /\ \A delta \in 1..MaxUint256 :
            delta > Current(ckpts) =>
              _writeCheckpoint(ckpts, "_subtract", delta) = WriteReverts("Panic", ckpts)
  /\ \A amount \in 1..MaxUint256 :
       /\ amount > Current(Supply) => _burn("token1", amount) = CkptRevert("Panic")
       /\ amount > Current(_checkpoints["token1"]["ben1"]) =>
            \A to \in {ZeroAddress, "ben2"} :
              _afterTokenTransfer("token1", "ben1", to, amount) = CkptRevert("Panic")

\* a burn of one unit was rejected after the total supply had gone from 1
\* back to 0
C24_Witness ==
  /\ last = [op |-> "burn", amount |-> 1, err |-> "Panic"]
  /\ Supply = <<Checkpoint(1, 1), Checkpoint(2, 0)>>

\* C25 (Transfer both-or-neither): at every reachable state, a transfer of a
\* positive amount between two different accounts either reverts and leaves
\* every series as it was, or takes amount from the votes of from and adds
\* it to the votes of to, both in checkpoints of the current block; it
\* reverts exactly when from holds less than amount or to would pass the
\* uint224 range.
C25_BothOrNeither ==
  \A from \in Users, to \in Users, amount \in 1..(MaxUint224 + 1) :
    from # to =>
      LET res == _afterTokenTransfer("token1", from, to, amount)
          old == _checkpoints["token1"]
          new == res.checkpoints["token1"]
      IN /\ res.totalSupplyCheckpoints = _totalSupplyCheckpoints
         /\ res.checkpoints["token2"] = _checkpoints["token2"]
         /\ res.err # "ok" <=> \/ Current(old[from]) < amount
                               \/ Current(old[to]) + amount > MaxUint224
         /\ res.err # "ok" => res = CkptRevert(res.err)
         /\ res.err = "ok" =>
              /\ Current(new[from]) = Current(old[from]) - amount
              /\ Current(new[to]) = Current(old[to]) + amount
              /\ new[from][Len(new[from])].fromBlock = blockNumber
              /\ new[to][Len(new[to])].fromBlock = blockNumber

\* a transfer failed in the write of the recipient, whose votes are at the
\* top of the range, while the sender holds the amount
C25_Witness ==
  /\ last = [op |-> "transfer", amount |-> 1, err |-> "SafeCast"]
  /\ Current(_checkpoints["token1"]["ben1"]) = 1
  /\ Current(_checkpoints["token1"]["ben2"]) = MaxUint224
  /\ writes["token1"]["ben1"].net = 1

\* a series by its name in the history
SeriesOf(token, series) ==
  IF series = TotalSupply THEN _totalSupplyCheckpoints[token]
  ELSE _checkpoints[token][series]

\* C26 (Append-only history): in every step, no series gets shorter, every
\* checkpoint but the last stays as it was, the last keeps its fromBlock, and
\* its votes change only when its fromBlock is the current block, without a
\* checkpoint being added.
C26_AppendOnly ==
  [][\A token \in Tokens, series \in Users \cup {TotalSupply} :
       LET old == SeriesOf(token, series)
           new == SeriesOf(token, series)'
           pos == Len(old)
       IN /\ Len(new) >= pos
          /\ Len(new) <= pos + 1
          /\ \A i \in 1..(pos - 1) : new[i] = old[i]
          /\ pos > 0 =>
               /\ new[pos].fromBlock = old[pos].fromBlock
               /\ new[pos] # old[pos] =>
                    /\ Len(new) = pos
                    /\ old[pos].fromBlock = blockNumber]_vars

\* the last checkpoint was written a second time in its block, after an
\* earlier checkpoint
C26_Witness ==
  /\ last = [op |-> "burn", amount |-> 1, err |-> "ok"]
  /\ Supply = <<Checkpoint(1, 1), Checkpoint(2, 0)>>
  /\ writes["token1"][TotalSupply].net = 0
  /\ blockNumber = 2

\* C27 (Current value): at every reachable state, getVotes returns the votes
\* of the last checkpoint of the account (0 without checkpoints), which is
\* the sum of the deltas added less the deltas subtracted by the writes that
\* succeeded; numCheckpoints returns the number of different blocks the
\* series was written in.
C27_CurrentValue ==
  \A account \in Users :
    LET ckpts == _checkpoints["token1"][account]
        history == writes["token1"][account]
    IN /\ getVotes("token1", account) = Returns(Current(ckpts))
       /\ getVotes("token1", account).value = history.net
       /\ numCheckpoints("token1", account) = Returns(Cardinality(history.blocks))

\* an account was written in both blocks, twice in the second, and holds
\* what it received less what it sent
C27_Witness ==
  /\ _checkpoints["token1"]["ben1"] = <<Checkpoint(1, 2), Checkpoint(2, 1)>>
  /\ writes["token1"]["ben1"] = [net |-> 1, blocks |-> {1, 2}]
  /\ Current(_checkpoints["token1"]["ben2"]) = 1

\* the calls in progress for a key
InProgress(k) ==
  \E i \in 1..Len(calls) : calls[i].token = k[1] /\ calls[i].beneficiary = k[2]

\* C28 (Release under re-entrancy): with a token that calls release or
\* releaseTo again from inside safeTransfer, in every reachable state, also
\* inside the calls, the units transferred out for a key are at most its
\* released, which is at most what getTotalMatured returns now and at most
\* its total; getTotalMatured returns whenever a release for the key is in
\* progress.
C28_ReleaseAtomic ==
  \A k \in Keys :
    LET schedule == schedules[k[1]][k[2]]
        m == getTotalMatured(k[1], k[2])
    IN /\ sent[k[1]][k[2]] <= schedule.released
       /\ schedule.released <= schedule.total
       /\ sent[k[1]][k[2]] <= schedule.total
       /\ InProgress(k) => m # PANIC
       /\ m # PANIC => /\ schedule.released <= m
                       /\ sent[k[1]][k[2]] <= m

\* a release of 2 units re-entered by a release of 2 units, both paid, took
\* the whole total in one transaction
C28_Witness ==
  /\ calls = <<>>
  /\ last = [op |-> "release", amount |-> 2, err |-> "ok"]
  /\ Len(emitted) = 2
  /\ emitted[1].amount = 2
  /\ emitted[2].amount = 2
  /\ sent["token1"]["ben1"] = 4

\* the sum of f over the beneficiaries S
RECURSIVE SumOver(_, _)
SumOver(S, f) ==
  IF S = {} THEN 0
  ELSE LET b == CHOOSE x \in S : TRUE IN f[b] + SumOver(S \ {b}, f)

\* C29 (createSchedule under re-entrancy): with a token that calls
\* createSchedule again from inside safeTransferFrom, in every reachable
\* state no key has been created more than once, and the totals recorded for
\* a token add up to the units received for it, those the contract holds
\* plus those released.
C29_CreateAtomic ==
  /\ \A k \in Keys : started[k[1]][k[2]] <= 1
  /\ \A token \in Tokens :
       SumOver(Users, [b \in Users |-> schedules[token][b].total]) =
         held[token] + SumOver(Users, sent[token])

\* C30 (Solvency): in every reachable state, for every token, the sum over
\* the beneficiaries of total - released is at most the units of the token
\* the contract holds.
C30_Solvency ==
  \A token \in Tokens :
    SumOver(Users, [b \in Users |-> schedules[token][b].total
                                      - schedules[token][b].released])
      <= held[token]

\* ------------------------------------------- further claims on LockRelease
\* C31 (Full payout): for every recorded schedule, whatever was released
\* before, at every block.timestamp t >= start + duration getTotalMatured
\* returns and getReleasable is total - released; at the current
\* block.timestamp a release of everything whose transfer goes through then
\* leaves released = total, and after it every release and releaseTo of the
\* key reverts with NoTokensDue.
C31_FullPayout ==
  \A k \in Keys : \A t \in Times :
    LET schedule == schedules[k[1]][k[2]] IN
      (started[k[1]][k[2]] > 0 /\ t >= schedule.start + schedule.duration) =>
        /\ maturedAt(schedule, t) # PANIC
        /\ checkedSub(maturedAt(schedule, t), schedule.released)
             = schedule.total - schedule.released
        /\ (t = now /\ schedule.released < schedule.total) =>
             /\ releaseAll(k[2], k[1], k[2], TRUE).err = "ok"
             /\ releaseAll(k[2], k[1], k[2], TRUE).schedules[k[1]][k[2]].released
                  = schedule.total
        /\ (t = now /\ schedule.released = schedule.total) =>
             \A amount \in 0..NumMaxTotal :
               /\ Rejected(release(k[2], k[1], k[2], amount, TRUE), "NoTokensDue")
               /\ Rejected(releaseTo(k[2], k[1], k[2], amount, TRUE), "NoTokensDue")

\* What is left of C31 for the schedules whose start + duration is in the
\* uint128 range.
C31_FullPayoutWhereReturned ==
  \A k \in Keys : \A t \in Times :
    LET schedule == schedules[k[1]][k[2]] IN
      (started[k[1]][k[2]] > 0 /\ t >= schedule.start + schedule.duration
         /\ schedule.start + schedule.duration <= MaxUint128) =>
        /\ maturedAt(schedule, t) # PANIC
        /\ checkedSub(maturedAt(schedule, t), schedule.released)
             = schedule.total - schedule.released
        /\ (t = now /\ schedule.released < schedule.total) =>
             /\ releaseAll(k[2], k[1], k[2], TRUE).err = "ok"
             /\ releaseAll(k[2], k[1], k[2], TRUE).schedules[k[1]][k[2]].released
                  = schedule.total
        /\ (t = now /\ schedule.released = schedule.total) =>
             \A amount \in 0..NumMaxTotal :
               /\ Rejected(release(k[2], k[1], k[2], amount, TRUE), "NoTokensDue")
               /\ Rejected(releaseTo(k[2], k[1], k[2], amount, TRUE), "NoTokensDue")

\* C32 (Claim error precedence): at every reachable state where getReleasable
\* returns, a release or releaseTo reverts with NoTokensDue when the
\* releasable amount is 0, whatever the amount; else with ZeroClaim when the
\* amount is 0; else with OverClaim when the amount is above the releasable
\* amount; each leaves every store as it was.  The forms without an amount
\* never revert with ZeroClaim or OverClaim.
C32_ErrorPrecedence ==
  /\ \A k \in Keys :
       LET unreleased == getReleasable(k[1], k[2]) IN
         unreleased # PANIC =>
           \A transferOk \in BOOLEAN :
             /\ \A amount \in 0..MaxUint256 :
                  LET rel == release(k[2], k[1], k[2], amount, transferOk)
                      relTo == releaseTo(k[2], k[1], k[2], amount, transferOk)
                      expected ==
                        IF unreleased = 0 THEN "NoTokensDue"
                        ELSE IF amount = 0 THEN "ZeroClaim"
                        ELSE IF amount > unreleased THEN "OverClaim"
                        ELSE IF transferOk THEN "ok" ELSE "TransferFailed"
                  IN /\ rel.err = expected
                     /\ relTo.err = expected
                     /\ expected # "ok" =>
                          (Rejected(rel, expected) /\ Rejected(relTo, expected))
             /\ releaseAll(k[2], k[1], k[2], transferOk).err
                  \notin {"ZeroClaim", "OverClaim"}
             /\ releaseToAll(k[2], k[1], k[2], transferOk).err
                  \notin {"ZeroClaim", "OverClaim"}
  /\ last.op \in {"releaseAll", "releaseToAll"} =>
       last.err \notin {"ZeroClaim", "OverClaim"}
  /\ last.err \in {"NoTokensDue", "ZeroClaim", "OverClaim"} => emitted = <<>>

\* a release of 0 units was rejected with ZeroClaim while units are releasable
C32_Witness ==
  /\ last = [op |-> "release", amount |-> 0, err |-> "ZeroClaim"]
  /\ getReleasable("token1", "ben1") > 0
  /\ getReleased("token1", "ben1") > 0

\* C33: in every reachable state, a key has a schedule exactly when its total
\* is not 0; every recorded schedule has total > 0 and duration > 0; and a
\* createSchedule with valid arguments for a key without a schedule, to which
\* the token delivers 0 units, reverts and records nothing.
C33_RecordedPositive ==
  \A k \in Keys :
    LET schedule == schedules[k[1]][k[2]] IN
      /\ started[k[1]][k[2]] > 0 <=> schedule.total # 0
      /\ started[k[1]][k[2]] > 0 => (schedule.total > 0 /\ schedule.duration > 0)
      /\ started[k[1]][k[2]] = 0 =>
           /\ schedule = NoSchedule
           /\ \A total \in 1..NumMaxTotal, start \in {0, NumMaxStart},
                 duration \in {1, MaxUint128} :
                Rejected(createSchedule(Owner, k[1], k[2], total, start,
                                        duration, 0),
                         "ZeroAmount")

\* a createSchedule of 1 unit of which the token delivered none was rejected,
\* and the key has no schedule
C33_Witness ==
  /\ last = [op |-> "createSchedule", amount |-> 1, err |-> "ZeroAmount"]
  /\ started["token1"]["ben1"] = 0
  /\ held["token1"] = 0

\* C37 (getTotalMatured returns): for every recorded schedule and every
\* block.timestamp, getTotalMatured returns: neither start + duration nor
\* total * (block.timestamp - start) overflows.
C37_MaturedReturns ==
  \A k \in Keys : \A t \in Times :
    started[k[1]][k[2]] > 0 => maturedAt(schedules[k[1]][k[2]], t) # PANIC

\* ------------------------------------------ further claims on Checkpoints
\* C35 (Settled history is stable): in every step that writes a series
\* (mint, burn or transfer), for every timepoint below the current
\* block.number, the timepoint is still below the clock after the step and
\* the lookup in the series as written returns what getPastVotes or
\* getPastTotalSupply returned before the step.  (A series the step does not
\* write is looked up as before, and block.number never decreases.)
C35_SettledStable ==
  [][\A token \in Tokens, series \in Users \cup {TotalSupply} :
       SeriesOf(token, series)' # SeriesOf(token, series) =>
         \A timepoint \in 0..(blockNumber - 1) :
           /\ timepoint < clock'
           /\ series = TotalSupply =>
                Returns(_checkpointsLookup(SeriesOf(token, series)', timepoint))
                  = getPastTotalSupply(token, timepoint)
           /\ series # TotalSupply =>
                Returns(_checkpointsLookup(SeriesOf(token, series)', timepoint))
                  = getPastVotes(token, series, timepoint)]_vars

\* the total supply was minted in block 1 and twice in block 2; the lookup
\* at block 1 still returns the votes of block 1
C35_Witness ==
  /\ last = [op |-> "mint", amount |-> 1, err |-> "ok"]
  /\ blockNumber = 2
  /\ Supply = <<Checkpoint(1, 1), Checkpoint(2, 3)>>
  /\ getPastTotalSupply("token1", 1) = Returns(1)

\* the sum of the votes of the last checkpoints of the accounts of a token
Distributed(token) ==
  SumOver(Users, [a \in Users |-> Current(_checkpoints[token][a])])

RECURSIVE ReleasedInLog(_, _)
ReleasedInLog(log, k) ==
  IF log = <<>> THEN 0
  ELSE LET e == log[Len(log)] IN
         (IF e.name = "TokensReleased" /\ e.token = k[1] /\ e.beneficiary = k[2]
          THEN e.amount ELSE 0)
           + ReleasedInLog(SubSeq(log, 1, Len(log) - 1), k)

\* the ScheduleStarted events of a key in a log
StartedInLog(log, k) ==
  {i \in DOMAIN log : /\ log[i].name = "ScheduleStarted"
                      /\ log[i].token = k[1]
                      /\ log[i].beneficiary = k[2]}

\* C34 (The event log reconstructs released): in every reachable state, for
\* every key, released is the sum of the amounts of the TokensReleased
\* events of the key in the log, and the key has a schedule exactly when the
\* log holds one ScheduleStarted event for it (and never holds more).  The
\* states are those between transactions, where the log is observable.
C34_LogReconstructs ==
  calls = <<>> =>
    \A k \in Keys :
      /\ getReleased(k[1], k[2]) = ReleasedInLog(events, k)
      /\ getTotal(k[1], k[2]) # 0 <=> Cardinality(StartedInLog(events, k)) = 1
      /\ Cardinality(StartedInLog(events, k)) <= 1

\* ------------------------------------------------------- the vesting views
\* The hooks of data/vests.ts derive what a vest shows from the ledger's
\* getters.  BigNumber arithmetic is unbounded and signed; div truncates.

\* useVestPeriods: start from getStart, end = start + getDuration
vestPeriod(token, beneficiary) ==
  [start |-> getStart(token, beneficiary),
   end |-> getStart(token, beneficiary) + getDuration(token, beneficiary)]

\* useVestPerSeconds: totalAmount.div(end - start)
perSecond(totalAmount, period) == totalAmount \div (period.end - period.start)

\* useVestVestedAmounts: the total from the end on, perSecond * elapsed before
vestedAmount(totalAmount, period, rate, currentTime) ==
  IF currentTime >= period.end THEN totalAmount
  ELSE rate * (currentTime - period.start)

\* useVestClaimableAmounts: vestedAmount.sub(claimedAmount)
claimableAmount(vested, claimed) == vested - claimed

\* what the view shows as vested for a key at currentTime
vestedShown(token, beneficiary, currentTime) ==
  vestedAmount(getTotal(token, beneficiary), vestPeriod(token, beneficiary),
               perSecond(getTotal(token, beneficiary),
                         vestPeriod(token, beneficiary)),
               currentTime)

\* C39 (UI vested amount mirrors the ledger): for every vest, at the current
\* time, the vestedAmount the view derives equals getTotalMatured, is never
\* negative, and claimableAmount (with claimedAmount = released) equals
\* getReleasable.  Stated where getTotalMatured returns.
C39_ViewMirrorsLedger ==
  \A k \in Keys :
    (started[k[1]][k[2]] > 0 /\ getTotalMatured(k[1], k[2]) # PANIC) =>
      /\ vestedShown(k[1], k[2], now) = getTotalMatured(k[1], k[2])
      /\ vestedShown(k[1], k[2], now) >= 0
      /\ getReleasable(k[1], k[2]) # PANIC =>
           claimableAmount(vestedShown(k[1], k[2], now), getReleased(k[1], k[2]))
             = getReleasable(k[1], k[2])

\* ------------------------------------------------- the claimed amounts shown
\* useVestClaimedAmounts keeps one entry per vest.  An effect reads
\* getReleasedTokens for the vests that have no entry and, when the promise
\* resolves, replaces the whole list; a subscription adds the amount of
\* every TokensReleased event delivered to the entry of its vest.  The
\* provider delivers the events of the ledger in order, some time after the
\* transaction.

\* Bounds of the specification SpecClaimed (one key):
\* block.timestamp runs over 0..ViewMaxTime
ViewMaxTime == 1
\* the total a caller requests, and the largest amount
ViewMaxTotal == 2

ViewScope ==
  [tokens |-> {"token1"}, users |-> {"ben1"}, callers |-> {"ben1"},
   recipients |-> {"ben1"}, totals |-> {0, ViewMaxTotal},
   amounts |-> 0..ViewMaxTotal, starts |-> {0}, durations |-> {0, 1},
   fees |-> {0}, maxTime |-> ViewMaxTime]

\* what the view does not write
ledgerVars ==
  <<schedules, now, held, sent, started, emitted, last, events, calls>>

\* A transaction of LockRelease while the hooks are mounted: its events are
\* in the log, and on their way to the subscriptions.
Watched(step) ==
  /\ step
  /\ events' = events \o emitted'
  /\ view' = [view EXCEPT !.inbox = @ \o emitted']
  /\ UNCHANGED calls
  /\ UNCHANGED ckptVars

\* the entry of a vest in the list, <<>> when it has none
entryOf(list, vestId) ==
  IF \E i \in DOMAIN list : list[i].vestId = vestId
  THEN <<list[CHOOSE i \in DOMAIN list :
                 /\ list[i].vestId = vestId
                 /\ \A j \in DOMAIN list : list[j].vestId = vestId => i <= j]>>
  ELSE <<>>

\* the handler of the subscription to VestStarted
addVest(vestIds, token, beneficiary) == <<(<<token, beneficiary>>)>> \o vestIds

\* the handler of the subscription to TokensReleased
tokensReleased(list, token, beneficiary, amount) ==
  [i \in DOMAIN list |->
     IF list[i].vestId = <<token, beneficiary>>
     THEN [list[i] EXCEPT !.claimedAmount = @ + amount]
     ELSE list[i]]

\* The provider delivers the oldest event not yet delivered.
DeliverEvent ==
  /\ view.inbox # <<>>
  /\ LET e == Head(view.inbox) IN
       view' = [view EXCEPT
                  !.inbox = Tail(@),
                  !.vestIds =
                    IF e.name = "ScheduleStarted"
                    THEN addVest(@, e.token, e.beneficiary) ELSE @,
                  !.vestClaimedAmounts =
                    IF e.name = "TokensReleased"
                    THEN tokensReleased(@, e.token, e.beneficiary, e.amount)
                    ELSE @]
  /\ UNCHANGED ledgerVars
  /\ UNCHANGED ckptVars

\* The effect runs: the lists differ in length, the entries already there
\* are taken as they are now and getReleasedTokens is read for the others.
FetchClaimed ==
  /\ Len(view.vestIds) # Len(view.vestClaimedAmounts)
  /\ view.fetched = <<>>
  /\ view' = [view EXCEPT !.fetched =
       <<[i \in DOMAIN view.vestIds |->
            LET vestId == view.vestIds[i]
                found == entryOf(view.vestClaimedAmounts, vestId)
            IN  [vestId |-> vestId,
                 claimedAmount |->
                   IF found # <<>> THEN found[1].claimedAmount
                   ELSE getReleased(vestId[1], vestId[2])]]>>]
  /\ UNCHANGED ledgerVars
  /\ UNCHANGED ckptVars

\* The promise resolves: setVestClaimedAmounts replaces the list.
SetClaimed ==
  /\ view.fetched # <<>>
  /\ view' = [view EXCEPT !.vestClaimedAmounts = view.fetched[1],
                          !.fetched = <<>>]
  /\ UNCHANGED ledgerVars
  /\ UNCHANGED ckptVars

ClaimedNext ==
  \/ Watched(CreateSchedule(ViewScope))
  \/ Watched(Release(ViewScope))
  \/ Watched(Tick(ViewScope))
  \/ DeliverEvent
  \/ FetchClaimed
  \/ SetClaimed

SpecClaimed == Init /\ [][ClaimedNext]_vars

\* the view is at rest: every event is delivered, no promise is pending and
\* every vest has its entry
AtRest ==
  /\ view.inbox = <<>>
  /\ view.fetched = <<>>
  /\ Len(view.vestIds) = Len(view.vestClaimedAmounts)

\* C38 (UI claimed amount mirrors the ledger under every interleaving): once
\* all events are delivered, the claimedAmount kept for a vest equals the
\* ledger's released, whatever the order of the initial read and the event
\* deliveries.
C38_ClaimedMirrors ==
  AtRest =>
    \A i \in DOMAIN view.vestClaimedAmounts :
      LET entry == view.vestClaimedAmounts[i] IN
        entry.claimedAmount = getReleased(entry.vestId[1], entry.vestId[2])

\* ------------------------------------------------------ the paging of vests
\* useVestIds reads the ScheduleStarted events of the past in pages of
\* queryPageSize blocks, from the current block back to deploymentBlock, and
\* the later ones from a subscription.

\* queryPageSize, scaled down from 10000 blocks
queryPageSize == 2

\* Bounds of the specification SpecPaging:
\* the ledger is deployed in a block of 0..PageMaxDeploy
PageMaxDeploy == 1
\* the chain grows up to block PageMaxBlock
PageMaxBlock == 5

PagingScope ==
  [tokens |-> {"token1"}, users |-> Users, callers |-> {Owner},
   recipients |-> Users, totals |-> {1}, amounts |-> {1}, starts |-> {0},
   durations |-> {1}, fees |-> {0}, maxTime |-> 0]

PagingInit ==
  /\ InitLockRelease
  /\ InitCheckpoints
  /\ \E deployed \in 0..PageMaxDeploy :
       view = [NoView EXCEPT !.deploymentBlock = deployed, !.head = deployed]

\* the effect on [endBlock, deploymentBlock]: loading ends when they meet
loadingAfter(loading, endBlock, deploymentBlock) ==
  IF endBlock = undefined THEN TRUE
  ELSE IF endBlock = deploymentBlock THEN FALSE
  ELSE loading

\* the ScheduleStarted events among the events of a transaction, each with
\* the block it is in
startedIn(log, block) ==
  LET found == SelectSeq(log, LAMBDA e : e.name = "ScheduleStarted") IN
    [i \in DOMAIN found |-> [event |-> found[i], blockNumber |-> block]]

\* the events of the log that are in a block
eventsOf(vestBlocks, block) ==
  LET found == SelectSeq(vestBlocks, LAMBDA e : e.blockNumber = block) IN
    [i \in DOMAIN found |-> found[i].event]

\* A transaction of LockRelease in the block being built.  The subscription
\* delivers the events of the blocks after the one getBlockNumber returned;
\* the earlier ones are left to the paging.
OnChain(step) ==
  /\ step
  /\ events' = events \o emitted'
  /\ view' = [view EXCEPT
       !.vestBlocks = @ \o startedIn(emitted', view.head),
       !.inbox = IF view.endBlock # undefined THEN @ \o emitted' ELSE @]
  /\ UNCHANGED calls
  /\ UNCHANGED ckptVars

\* The block being built is mined.
MineBlock ==
  /\ view.head < PageMaxBlock
  /\ view' = [view EXCEPT !.head = @ + 1]
  /\ UNCHANGED ledgerVars
  /\ UNCHANGED ckptVars

\* provider.getBlockNumber().then(setEndBlock): the last block mined.  The
\* events already in the block being built are for the subscription.
GetBlockNumber ==
  /\ view.endBlock = undefined
  /\ view.head > view.deploymentBlock
  /\ view' = [view EXCEPT
       !.endBlock = view.head - 1,
       !.loading = loadingAfter(@, view.head - 1, view.deploymentBlock),
       !.inbox = @ \o eventsOf(view.vestBlocks, view.head)]
  /\ UNCHANGED ledgerVars
  /\ UNCHANGED ckptVars

\* the first block of the page that ends at endBlock
startBlockOf(endBlock, deploymentBlock) ==
  IF endBlock - queryPageSize + 1 < deploymentBlock THEN deploymentBlock
  ELSE endBlock - queryPageSize + 1

\* the updater passed to setEndBlock after a page
newEndBlockOf(endBlock, deploymentBlock) ==
  IF endBlock = undefined \/ endBlock = 0 THEN undefined
  ELSE IF endBlock - queryPageSize < deploymentBlock THEN deploymentBlock
  ELSE endBlock - queryPageSize

\* queryFilter(allVestsFilter, startBlock, endBlock): the events of the
\* range, in the order of the log
queryFilter(vestBlocks, startBlock, endBlock) ==
  SelectSeq(vestBlocks,
            LAMBDA e : startBlock <= e.blockNumber /\ e.blockNumber <= endBlock)

\* sort by blockNumber, the latest first; events of one block keep their order
RECURSIVE sortedVests(_)
sortedVests(found) ==
  IF found = <<>> THEN <<>>
  ELSE LET latest == CHOOSE i \in DOMAIN found :
                       /\ \A j \in DOMAIN found :
                            found[j].blockNumber <= found[i].blockNumber
                       /\ \A j \in 1..(i - 1) :
                            found[j].blockNumber < found[i].blockNumber
           others == [j \in 1..(Len(found) - 1) |->
                        IF j < latest THEN found[j] ELSE found[j + 1]]
       IN  <<(<<found[latest].event.token, found[latest].event.beneficiary>>)>>
             \o sortedVests(others)

\* The paging effect and its promise: one page is queried, its vests are
\* added after those already known, and endBlock steps back.
QueryPage ==
  /\ view.endBlock # undefined
  /\ view.endBlock # view.deploymentBlock
  /\ LET startBlock == startBlockOf(view.endBlock, view.deploymentBlock)
         newVests == queryFilter(view.vestBlocks, startBlock, view.endBlock)
         newEndBlock == newEndBlockOf(view.endBlock, view.deploymentBlock)
     IN  view' = [view EXCEPT
           !.vestIds = @ \o sortedVests(newVests),
           !.queried = Append(@, <<startBlock, view.endBlock>>),
           !.endBlock = newEndBlock,
           !.loading = loadingAfter(@, newEndBlock, view.deploymentBlock)]
  /\ UNCHANGED ledgerVars
  /\ UNCHANGED ckptVars

PagingNext ==
  \/ OnChain(CreateSchedule(PagingScope))
  \/ MineBlock
  \/ GetBlockNumber
  \/ QueryPage
  \/ DeliverEvent

SpecPaging == PagingInit /\ [][PagingNext]_vars

\* the paging is over and every event of the subscription is delivered
Paged ==
  /\ view.endBlock = view.deploymentBlock
  /\ view.inbox = <<>>

\* the block getBlockNumber returned, where the paging started
firstEndBlock ==
  IF view.queried = <<>> THEN view.endBlock ELSE view.queried[1][2]

\* the places of a ScheduleStarted event in vestIds
placesOf(e) ==
  {i \in DOMAIN view.vestIds :
     view.vestIds[i] = <<e.event.token, e.event.beneficiary>>}

\* the pages that queried a block
pagesOf(b) ==
  {i \in DOMAIN view.queried : view.queried[i][1] <= b /\ b <= view.queried[i][2]}

\* C40 (Backward event paging terminates and is exact): when endBlock has
\* reached deploymentBlock, loading is false, every block from
\* deploymentBlock to the first endBlock was queried by exactly one page,
\* and (the events of the subscription delivered) every ScheduleStarted
\* event is in vestIds exactly once.
C40_PagingExact ==
  Paged =>
    /\ view.loading = FALSE
    /\ \A b \in view.deploymentBlock..firstEndBlock :
         Cardinality(pagesOf(b)) = 1
    /\ \A e \in DOMAIN view.vestBlocks :
         Cardinality(placesOf(view.vestBlocks[e])) = 1

====
